---- MODULE Spec2Model ----
(***************************************************************************)
(* Model of the keypoint-editing canvas of keypoint_labeler                *)
(* (src/viewer/canvas.py, class ImageCanvas): the keypoint sequence, the    *)
(* selection, the view transform, the gesture handlers and the undo stack.  *)
(*                                                                          *)
(* A canvas value is a record holding the fields of ImageCanvas; every      *)
(* method is an operator from a canvas record (and the event's inputs) to   *)
(* the canvas record after the call, composed the way the code calls them.  *)
(* The actions apply one handler to the current state.                      *)
(*                                                                          *)
(* Numbers: zoom_factor is a Python float, and so are the scales and the    *)
(* ratios the code computes on the way to an int().  They are modelled as   *)
(* IEEE 754 doubles, every operation rounded as the processor rounds it.    *)
(***************************************************************************)
EXTENDS Integers, Sequences, FiniteSets, TLC

VARIABLES
    pixmap,               \* self.pixmap: None or the image's <<width, height>>
    keypoints,            \* self.keypoints: sequence of <<x, y>>
    selected_point,       \* self.selected_point (0-based index, -1: none)
    last_added_point,     \* self.last_added_point (0-based index, -1: none)
    undo_stack,           \* self.undo_stack: sequence of records, oldest first
    dragging,             \* self.dragging
    drag_start_position,  \* self.drag_start_position: None or <<x, y>>
    mouse_mode,           \* self.mouse_mode: "select" or "pan"
    zoom_factor,          \* self.zoom_factor: a float [sign, m, e]
    pan_offset,           \* self.pan_offset: <<x, y>>
    last_mouse_pos,       \* self.last_mouse_pos: <<x, y>>
    left_button,          \* the pointer's primary button is held (event.buttons())
    connected,            \* the shell's slots are connected to the canvas's signals
    app_keypoints,        \* KeypointLabeler.keypoints
    shared,               \* canvas.keypoints and the shell's keypoints are one list object
    list_count,           \* number of rows of the shell's keypoint_list
    list_items,           \* the rows of keypoint_list: the numbers each row's text shows
    current_row,          \* keypoint_list.currentRow() (-1: none)
    undo_result,          \* the value of the last call of undo() (None before any)
    h_event,              \* history: the handler that ran last
    h_pre,                \* history: the state before each recorded edit not yet undone
    h_press,              \* history: the state when the last primary press had been handled
    h_base,               \* history: the sequence last handed to the canvas
    h_run,                \* history: edits recorded since the last undo() call; saves made; presses
    h_input,              \* history: the input of the handler that ran last, if kept
    files,                \* the sidecar file, its .bak and its .tmp: [exists, text] each
    io,                   \* the JSONIO call in progress or finished last
    session               \* the session's other fields: image, loaders, current file, report

vars == <<pixmap, keypoints, selected_point, last_added_point, undo_stack, dragging,
          drag_start_position, mouse_mode, zoom_factor, pan_offset, last_mouse_pos,
          left_button, connected, app_keypoints, shared, list_count, list_items,
          current_row, undo_result, h_event, h_pre, h_press, h_base, h_run, h_input,
          files, io, session>>

(***************************************************************************)
(* Program constants and the environment's sizes                           *)
(***************************************************************************)
max_undo_steps == 50
base_min_distance == 20
min_hit_distance == 10
no_pixmap_limit == 9999

\* Python's None
None == <<>>

\* The widget's size (self.size(), self.width(), self.height()); the widget is
\* at least 400 x 300 (setMinimumSize).
ViewW == 512
ViewH == 512
\* The sizes of the images that are loaded.  At zoom 1 a 512 x 256 image fills
\* the rectangle x 0..512, y 128..384 of the widget, one screen pixel per image
\* pixel.
ImageSizes == {<<512, 256>>}

(***************************************************************************)
(* Bounds of the model                                                     *)
(***************************************************************************)
MaxPoints == 2
MaxRecords == 2
MaxExtraPushes == 3

\* Screen positions of the pointer events: two inside the content rectangle at
\* zoom 1 (over the image's (8, 8) and (40, 8)), and one that is above the
\* rectangle at zoom 1 and over the image's (58, 8) at zoom 1.2.
ScreenPoints == {<<8, 136>>, <<40, 136>>, <<19, 112>>}
\* Sequences handed to set_keypoints.
LoadedSequences == {<< <<8, 8>> >>, << <<8, 8>>, <<40, 8>> >>}
\* Pan offsets the pan events may reach.
PanOffsets == {<<0, 0>>, <<32, 0>>}
\* Sequences of the canvas when a deletion is asked for.
DeleteSequences == {<< <<0, 0>>, <<1, 1>>, <<2, 2>> >>, << <<8, 8>>, <<40, 8>>, <<58, 8>> >>}
\* Sequences of the canvas when arrow keys nudge a point: near the top left
\* corner of the image and near its bottom right corner.
NudgeSequences == LoadedSequences \cup {<< <<510, 250>> >>}
\* Every arrow key, with and without the Shift modifier.
NudgeKeys == {"Left", "Right", "Up", "Down"} \X BOOLEAN
\* The pan offsets explored when arrow keys pan: at most PanLimit on each axis.
PanLimit == 20
\* Sequences searched for the nearest point: with two and three points at one
\* distance from a click, in both orders, with a nearer point after and before
\* them, and with one point twice.
NearestSequences ==
    {<< <<8, 8>>, <<40, 8>> >>, << <<40, 8>>, <<8, 8>> >>,
     << <<8, 8>>, <<40, 8>>, <<24, 24>> >>, << <<8, 8>>, <<40, 8>>, <<24, 10>> >>,
     << <<24, 20>>, <<8, 8>>, <<40, 8>> >>, << <<8, 8>>, <<8, 8>> >>}
\* Screen positions of the presses that search, and image positions searched
\* from with Tools.find_closest_point.
NearestClicks == {<<24, 136>>, <<8, 136>>, <<24, 150>>, <<100, 136>>}
NearestTargets == {<<24, 8>>, <<8, 8>>, <<24, 22>>, <<100, 8>>}
\* The longest sequence explored by the searches.
MaxSearched == 4
\* Screen positions on the edges of the content rectangle at zoom 1: its top
\* left corner, its bottom edge and the last row of pixels above it.
EdgeClicks == {<<0, 128>>, <<8, 384>>, <<8, 383>>}
\* Images drawn at the scale of the widget, reduced four times, upright, and
\* at a scale that is no binary fraction (512 / 640).
RoundTripSizes == {<<512, 256>>, <<2048, 1024>>, <<256, 512>>, <<640, 480>>}
\* Image points taken through the round trip (those inside the image loaded).
RoundTripPoints ==
    {<<0, 0>>, <<1, 1>>, <<3, 3>>, <<7, 100>>, <<10, 100>>, <<129, 64>>, <<255, 255>>,
     <<511, 255>>, <<639, 479>>,
     <<255, 511>>, <<1000, 1001>>, <<2047, 1023>>}
\* Positions of the pointer when the wheel is turned: the centre of the widget, a
\* position just above the image at zoom 1.0, and one well below it.
WheelPoints == {<<256, 256>>, <<256, 121>>, <<9, 401>>}
\* The events explored under the wheel, from each of the states they start in.
MaxTurns == 3
\* Arrow keys pressed, each with the state of the Shift modifier.
ArrowKeys == {<<"Right", FALSE>>, <<"Up", TRUE>>}

(***************************************************************************)
(* Arithmetic helpers                                                      *)
(***************************************************************************)
Max(a, b) == IF a >= b THEN a ELSE b
Min(a, b) == IF a <= b THEN a ELSE b
Abs(a) == IF a >= 0 THEN a ELSE -a

(***************************************************************************)
(* Python floats (IEEE 754 binary64, round to nearest, ties to even)       *)
(*                                                                         *)
(* TLC's integers have 32 bits, a double's significand 53: a natural       *)
(* number is kept as the sequence of its digits in base 2^15, least        *)
(* significant first and without leading zeros.  A float is a record       *)
(* [sign, m, e] of value sign * m * 2^e with 2^52 <= m < 2^53 (m is << >>  *)
(* and e is 0 for 0.0).  The values the program computes stay far from     *)
(* overflow, underflow and the subnormal numbers.                          *)
(***************************************************************************)
Base == 2^15

RECURSIVE BigOf(_)
BigOf(n) == IF n = 0 THEN << >> ELSE <<n % Base>> \o BigOf(n \div Base)

RECURSIVE BigToInt(_)
BigToInt(a) == IF a = << >> THEN 0 ELSE a[1] + Base * BigToInt(Tail(a))

RECURSIVE BigTrim(_)
BigTrim(a) ==
    IF a # << >> /\ a[Len(a)] = 0 THEN BigTrim(SubSeq(a, 1, Len(a) - 1)) ELSE a

Digit(a, i) == IF i <= Len(a) THEN a[i] ELSE 0

\* -1, 0 or 1 as a < b, a = b or a > b, from the digit i down.
RECURSIVE BigCmpFrom(_, _, _)
BigCmpFrom(a, b, i) ==
    IF i = 0 THEN 0
    ELSE IF Digit(a, i) < Digit(b, i) THEN -1
    ELSE IF Digit(a, i) > Digit(b, i) THEN 1
    ELSE BigCmpFrom(a, b, i - 1)

BigCmp(a, b) == BigCmpFrom(a, b, Max(Len(a), Len(b)))

\* a + b + carry, from the digit i up.
RECURSIVE BigAddFrom(_, _, _, _)
BigAddFrom(a, b, i, carry) ==
    IF i > Len(a) /\ i > Len(b) THEN (IF carry = 0 THEN << >> ELSE <<carry>>)
    ELSE <<(Digit(a, i) + Digit(b, i) + carry) % Base>>
             \o BigAddFrom(a, b, i + 1, (Digit(a, i) + Digit(b, i) + carry) \div Base)

BigAdd(a, b) == BigAddFrom(a, b, 1, 0)

\* a - b - borrow for a >= b, from the digit i up.
RECURSIVE BigSubFrom(_, _, _, _)
BigSubFrom(a, b, i, borrow) ==
    IF i > Len(a) THEN << >>
    ELSE IF a[i] - Digit(b, i) - borrow < 0
         THEN <<a[i] - Digit(b, i) - borrow + Base>> \o BigSubFrom(a, b, i + 1, 1)
    ELSE <<a[i] - Digit(b, i) - borrow>> \o BigSubFrom(a, b, i + 1, 0)

BigSub(a, b) == BigTrim(BigSubFrom(a, b, 1, 0))

\* a * d + carry for 0 < d <= Base, from the digit i up.
RECURSIVE BigMulSmallFrom(_, _, _, _)
BigMulSmallFrom(a, d, i, carry) ==
    IF i > Len(a) THEN (IF carry = 0 THEN << >> ELSE <<carry>>)
    ELSE <<(a[i] * d + carry) % Base>>
             \o BigMulSmallFrom(a, d, i + 1, (a[i] * d + carry) \div Base)

BigMulSmall(a, d) == IF d = 0 THEN << >> ELSE BigMulSmallFrom(a, d, 1, 0)

\* a * Base^n
BigShiftDigits(a, n) == IF a = << >> THEN a ELSE [i \in 1..n |-> 0] \o a

RECURSIVE BigMul(_, _)
BigMul(a, b) ==
    IF b = << >> THEN << >>
    ELSE BigAdd(BigMulSmall(a, Head(b)), BigShiftDigits(BigMul(a, Tail(b)), 1))

\* a * 2^n
BigShl(a, n) == BigShiftDigits(BigMulSmall(a, 2^(n % 15)), n \div 15)

\* a \div d for 0 < d <= Base, from the digit i down, r being the remainder so far.
RECURSIVE BigDivSmallFrom(_, _, _, _)
BigDivSmallFrom(a, d, i, r) ==
    IF i = 0 THEN << >>
    ELSE BigDivSmallFrom(a, d, i - 1, (r * Base + a[i]) % d)
             \o <<(r * Base + a[i]) \div d>>

\* The digits a \div d for 0 < d <= Base.
BigDivSmall(a, d) == BigTrim(BigDivSmallFrom(a, d, Len(a), 0))

\* a \div 2^n
BigShr(a, n) ==
    IF n \div 15 >= Len(a) THEN << >>
    ELSE BigDivSmall(SubSeq(a, n \div 15 + 1, Len(a)), 2^(n % 15))

RECURSIVE BitLen(_)
BitLen(n) == IF n = 0 THEN 0 ELSE 1 + BitLen(n \div 2)

BigBitLen(a) == IF a = << >> THEN 0 ELSE 15 * (Len(a) - 1) + BitLen(a[Len(a)])

\* The greatest q <= guess with q * d <= r.
RECURSIVE QuotientDigit(_, _, _)
QuotientDigit(r, d, guess) ==
    IF BigCmp(BigMulSmall(d, guess), r) > 0 THEN QuotientDigit(r, d, guess - 1)
    ELSE guess

\* Long division of a by d, whose leading digit is 2^14 at least, from the
\* digit i of a down, r (below d) being the remainder so far and r1 the
\* remainder with the digit i brought down: <<quotient, remainder>>.  The
\* guess of a quotient digit from the leading digits is never too small.
RECURSIVE BigDivFrom(_, _, _, _)
BigDivNext(a, d, i, r1, q) ==
    LET rest == BigDivFrom(a, d, i - 1, BigSub(r1, BigMulSmall(d, q)))
    IN  <<rest[1] \o <<q>>, rest[2]>>

BigDivDigit(a, d, i, r1) ==
    IF Len(r1) < Len(d) THEN BigDivNext(a, d, i, r1, 0)
    ELSE BigDivNext(a, d, i, r1,
            QuotientDigit(r1, d,
                Min(Base - 1,
                    (Digit(r1, Len(d) + 1) * Base + Digit(r1, Len(d))) \div d[Len(d)])))

BigDivFrom(a, d, i, r) ==
    IF i = 0 THEN <<<< >>, r>> ELSE BigDivDigit(a, d, i, BigTrim(<<a[i]>> \o r))

\* <<a \div d, whether a % d # 0>> for a d whose leading digit is 2^14 at least.
BigDivPair(qr) == <<BigTrim(qr[1]), qr[2] # << >>>>

BigDiv(a, d) == BigDivPair(BigDivFrom(a, d, Len(a), << >>))

\* a % 2^n # 0
BigLowBits(a, n) ==
    \E i \in 1..Len(a) :
        \/ i <= n \div 15 /\ a[i] # 0
        \/ i = n \div 15 + 1 /\ a[i] % 2^(n % 15) # 0

float_zero == [sign |-> 0, m |-> << >>, e |-> 0]

\* The float sign * m * 2^e, m having 53 or 54 bits (then it is 2^53).
float_carry(sign, m, e) ==
    IF BigBitLen(m) = 54 THEN [sign |-> sign, m |-> BigShr(m, 1), e |-> e + 1]
    ELSE [sign |-> sign, m |-> m, e |-> e]

\* The float nearest to sign * (q + f) * 2^e, q having 54 bits and f being a
\* fraction below 1 that is not 0 if sticky: the last bit of q decides the
\* rounding, and a tie goes to the even significand.
float_nearest(sign, q, sticky, e) ==
    float_carry(sign,
                BigShr(IF q[1] % 2 = 1 /\ (sticky \/ q[1] % 4 = 3) THEN BigAdd(q, <<1>>)
                       ELSE q, 1),
                e + 1)

\* The same for a q of n + 54 bits.
float_round_at(sign, q, inexact, e, n) ==
    float_nearest(sign, BigShr(q, n), inexact \/ BigLowBits(q, n), e + n)

\* The float nearest to sign * (q + f) * 2^e for a natural number q of 54 bits
\* at least and a fraction f below 1 that is not 0 if inexact and is 0 otherwise.
float_round(sign, q, inexact, e) == float_round_at(sign, q, inexact, e, BigBitLen(q) - 54)

\* float(n) for an int n (of 32 bits: it is n exactly)
float_of_nat(sign, n, bits) ==
    [sign |-> sign, m |-> BigShl(BigOf(n), 53 - bits), e |-> bits - 53]

float_of_int(n) ==
    IF n = 0 THEN float_zero
    ELSE float_of_nat(IF n < 0 THEN -1 ELSE 1, Abs(n), BitLen(Abs(n)))

\* x * y
float_mul(x, y) ==
    IF x.sign = 0 \/ y.sign = 0 THEN float_zero
    ELSE float_round(x.sign * y.sign, BigMul(x.m, y.m), FALSE, x.e + y.e)

\* x / y for y # 0.0: the quotient of the significands is taken to 57 bits at
\* least, with what is left of it saying whether it is exact.  (The divisor is
\* taken 2^7 times, which makes its leading digit 2^14 at least.)
float_quotient(sign, qr, e) == float_round(sign, qr[1], qr[2], e)

float_div(x, y) ==
    IF x.sign = 0 THEN float_zero
    ELSE float_quotient(x.sign * y.sign, BigDiv(BigShl(x.m, 64), BigShl(y.m, 7)),
                        x.e - y.e - 57)

\* The float nearest to (sx * a + sy * b) * 2^e for natural numbers a, b > 0
\* that are multiples of 2^64.
float_sum(sx, a, sy, b, e) ==
    IF sx # sy /\ BigCmp(a, b) = 0 THEN float_zero
    ELSE float_round(IF sx = sy \/ BigCmp(a, b) > 0 THEN sx ELSE sy,
                     IF sx = sy THEN BigAdd(a, b)
                     ELSE IF BigCmp(a, b) > 0 THEN BigSub(a, b) ELSE BigSub(b, a),
                     FALSE, e)

\* x - y
float_sub(x, y) ==
    IF y.sign = 0 THEN x
    ELSE IF x.sign = 0 THEN [y EXCEPT !.sign = -y.sign]
    ELSE float_sum(x.sign, BigShl(x.m, x.e - Min(x.e, y.e) + 64),
                   -y.sign, BigShl(y.m, y.e - Min(x.e, y.e) + 64), Min(x.e, y.e) - 64)

\* x < y: by the signs, then the exponents, then the significands.
float_less(x, y) ==
    IF x.sign # y.sign THEN x.sign < y.sign
    ELSE IF x.e # y.e THEN (x.sign > 0) = (x.e < y.e)
    ELSE (x.sign > 0 /\ BigCmp(x.m, y.m) < 0) \/ (x.sign < 0 /\ BigCmp(x.m, y.m) > 0)

\* min(x, y) and max(x, y) of Python: the first argument unless the second is
\* smaller (greater).
float_min(x, y) == IF float_less(y, x) THEN y ELSE x
float_max(x, y) == IF float_less(x, y) THEN y ELSE x

\* int(x): x without its fraction.
int_of_float(x) ==
    x.sign * BigToInt(IF x.e >= 0 THEN BigShl(x.m, x.e) ELSE BigShr(x.m, -x.e))

\* The float literals of the program, by their bits.
float_0_1 == [sign |-> 1, m |-> <<6554, 13107, 26214, 204>>, e |-> -56]
float_0_9 == [sign |-> 1, m |-> <<19661, 6553, 13107, 230>>, e |-> -53]
float_1_0 == [sign |-> 1, m |-> <<0, 0, 0, 128>>, e |-> -52]
float_1_1 == [sign |-> 1, m |-> <<6554, 13107, 26214, 140>>, e |-> -52]
float_1_2 == [sign |-> 1, m |-> <<13107, 26214, 19660, 153>>, e |-> -52]
float_10_0 == [sign |-> 1, m |-> <<0, 0, 0, 160>>, e |-> -49]

\* Zoom levels the zoom events may reach: 1.0 and 1.0 * 1.2.
ZoomLevels == {float_1_0, float_1_2}
\* Zoom factors of the round trip: the least, 1.0, one zoom_in() step, the most.
RoundTripZooms == {float_0_1, float_1_0, float_1_2, float_10_0}
\* Zoom factors from which the wheel is turned: 1.0 and the two ends of the range.
WheelStartZooms == {float_1_0, float_10_0, float_0_1}

\* Removal of the element at 1-based position i (Python's del list[i-1]).
DelAt(s, i) == [j \in 1..(Len(s) - 1) |-> IF j < i THEN s[j] ELSE s[j + 1]]

(***************************************************************************)
(* The state as one record, and its write-back                             *)
(***************************************************************************)
Cur ==
    [pixmap |-> pixmap, keypoints |-> keypoints, selected_point |-> selected_point,
     last_added_point |-> last_added_point, undo_stack |-> undo_stack,
     dragging |-> dragging, drag_start_position |-> drag_start_position,
     mouse_mode |-> mouse_mode, zoom_factor |-> zoom_factor, pan_offset |-> pan_offset,
     last_mouse_pos |-> last_mouse_pos, connected |-> connected,
     app_keypoints |-> app_keypoints, shared |-> shared, list_count |-> list_count,
     list_items |-> list_items, current_row |-> current_row, undo_result |-> undo_result]

Becomes(w) ==
    /\ pixmap' = w.pixmap
    /\ keypoints' = w.keypoints
    /\ selected_point' = w.selected_point
    /\ last_added_point' = w.last_added_point
    /\ undo_stack' = w.undo_stack
    /\ dragging' = w.dragging
    /\ drag_start_position' = w.drag_start_position
    /\ mouse_mode' = w.mouse_mode
    /\ zoom_factor' = w.zoom_factor
    /\ pan_offset' = w.pan_offset
    /\ last_mouse_pos' = w.last_mouse_pos
    /\ connected' = w.connected
    /\ app_keypoints' = w.app_keypoints
    /\ shared' = w.shared
    /\ list_count' = w.list_count
    /\ list_items' = w.list_items
    /\ current_row' = w.current_row
    /\ undo_result' = w.undo_result

\* An in-place change of the canvas's list (append, del, item assignment): the
\* shell sees it when the two hold the same list object.
mutate_keypoints(w, kps) ==
    [w EXCEPT !.keypoints = kps,
              !.app_keypoints = IF w.shared THEN kps ELSE @]

(***************************************************************************)
(* View transform                                                          *)
(***************************************************************************)
\* QSize(int(width * zoom), int(height * zoom)) for the zoom factor z
zoomed_size_at(z) ==
    <<int_of_float(float_mul(float_of_int(ViewW), z)),
      int_of_float(float_mul(float_of_int(ViewH), z))>>

\* max(10, int(base_min_distance / zoom)) for the zoom factor z
hit_radius_at(z) ==
    Max(min_hit_distance, int_of_float(float_div(float_of_int(base_min_distance), z)))

\* The two at the zoom factors most states have, computed once.
zoomed_size_of == [z \in ZoomLevels |-> zoomed_size_at(z)]
hit_radius_of == [z \in ZoomLevels |-> hit_radius_at(z)]

zoomed_size(w) ==
    IF w.zoom_factor \in ZoomLevels THEN zoomed_size_of[w.zoom_factor]
    ELSE zoomed_size_at(w.zoom_factor)

\* Size of pixmap.scaled(size, Qt.KeepAspectRatio): the largest size of the
\* pixmap's aspect ratio inside `size` (Qt's QSize::scaled, integer division),
\* each side then raised to 1 at least (QPixmap::scaled).
scaled_size(pm, size) ==
    LET rw == (size[2] * pm[1]) \div pm[2]
    IN  IF rw <= size[1] THEN <<Max(rw, 1), Max(size[2], 1)>>
        ELSE <<Max(size[1], 1), Max((size[1] * pm[2]) \div pm[1], 1)>>

\* get_image_rect, lines 592-599: the scaled pixmap of size s, centred in the
\* widget and shifted by the pan offset.
centred_rect(w, s) ==
    <<(ViewW - s[1]) \div 2 + w.pan_offset[1],
      (ViewH - s[2]) \div 2 + w.pan_offset[2], s[1], s[2]>>

\* The rendered content rectangle <<x, y, width, height>>.
get_image_rect(w) ==
    IF w.pixmap = None THEN <<0, 0, 0, 0>>
    ELSE centred_rect(w, scaled_size(w.pixmap, zoomed_size(w)))

\* int(rel / drawn * full), lines 548-551: the division and the product are
\* float operations.
rel_to_image_at(rel, drawn, full) ==
    int_of_float(float_mul(float_div(float_of_int(rel), float_of_int(drawn)),
                           float_of_int(full)))

\* The extents of the images loaded, and those they are drawn with at zoom
\* 1.0 and 1.2.
FullExtents == {size[i] : size \in ImageSizes, i \in 1..2}
DrawnExtents == {512, 256, 614, 307}

\* rel_to_image_at for these extents, computed once.
rel_to_image_of ==
    [full \in FullExtents |->
        [drawn \in DrawnExtents |->
            [rel \in 0..drawn |-> rel_to_image_at(rel, drawn, full)]]]

rel_to_image(rel, drawn, full) ==
    IF full \in FullExtents /\ drawn \in DrawnExtents /\ rel \in 0..drawn
    THEN rel_to_image_of[full][drawn][rel]
    ELSE rel_to_image_at(rel, drawn, full)

\* screen_to_image_coords, lines 538-553: the position relative to the content
\* rectangle r, scaled to the image; None outside the rectangle.
rect_to_image_coords(w, pos, r) ==
    IF /\ r[1] <= pos[1] /\ pos[1] <= r[1] + r[3]
       /\ r[2] <= pos[2] /\ pos[2] <= r[2] + r[4]
    THEN <<rel_to_image(pos[1] - r[1], r[3], w.pixmap[1]),
           rel_to_image(pos[2] - r[2], r[4], w.pixmap[2])>>
    ELSE None

screen_to_image_coords(w, pos) ==
    IF w.pixmap = None THEN None
    ELSE rect_to_image_coords(w, pos, get_image_rect(w))

\* int(x * scale) with scale = drawn / full, lines 200-206, in floats.
image_to_drawn(x, drawn, full) ==
    int_of_float(float_mul(float_of_int(x),
                           float_div(float_of_int(drawn), float_of_int(full))))

\* A variant of image_to_screen that leaves the offset of the image out.
image_to_screen_unshifted(p, r, pm) ==
    <<image_to_drawn(p[1], r[3], pm[1]), image_to_drawn(p[2], r[4], pm[2])>>

\* draw_keypoints, lines 199-206: the screen position at which the image point
\* p is drawn, the pixmap pm being drawn in the rectangle r.
image_to_screen(p, r, pm) ==
    <<image_to_drawn(p[1], r[3], pm[1]) + r[1],
      image_to_drawn(p[2], r[4], pm[2]) + r[2]>>

\* paintEvent / draw_keypoints: the screen positions of the keypoints drawn.
draw_keypoints(w) ==
    [i \in 1..Len(w.keypoints) |->
        image_to_screen(w.keypoints[i], get_image_rect(w), w.pixmap)]

\* A variant of hit_radius that does not follow the zoom.
hit_radius_unzoomed(w) == Max(min_hit_distance, base_min_distance)

\* max(10, int(base_min_distance / self.zoom_factor))
hit_radius(w) ==
    IF w.zoom_factor \in ZoomLevels THEN hit_radius_of[w.zoom_factor]
    ELSE hit_radius_at(w.zoom_factor)

\* Square of the Euclidean distance of two points.
dist2(p, q) == (p[1] - q[1]) * (p[1] - q[1]) + (p[2] - q[2]) * (p[2] - q[2])

(***************************************************************************)
(* The shell's slots (src/app.py), run synchronously by the signals        *)
(***************************************************************************)
\* ImageCanvas.clear_undo_stack
clear_undo_stack(w) ==
    [w EXCEPT !.undo_stack = << >>, !.last_added_point = -1]

\* A variant of set_keypoints that keeps the undo stack.
set_keypoints_keeping_stack(w, kps, same_list) ==
    [w EXCEPT !.keypoints = kps, !.selected_point = -1,
              !.last_added_point = -1, !.shared = same_list]

\* ImageCanvas.set_keypoints(keypoints): the canvas keeps the caller's list
\* object; same_list says that it is the shell's own list.
set_keypoints(w, kps, same_list) ==
    clear_undo_stack([w EXCEPT !.keypoints = kps, !.selected_point = -1,
                               !.last_added_point = -1, !.shared = same_list])

\* ImageCanvas.select_keypoint(index)
select_keypoint(w, index) == [w EXCEPT !.selected_point = index]

\* KeypointLabeler.on_keypoint_selection_changed
on_keypoint_selection_changed(w) ==
    IF w.current_row >= 0 THEN select_keypoint(w, w.current_row) ELSE w

\* QListWidget.clear(): the selection model is cleared first, selection before
\* current index, so a selected row gives an itemSelectionChanged signal while
\* currentRow() is still that row; then the current row and the items go.
\* The list selects one row at a time: the selected row is the current row.
list_clear(w) ==
    [(IF w.current_row >= 0 THEN on_keypoint_selection_changed(w) ELSE w)
        EXCEPT !.list_count = 0, !.list_items = << >>, !.current_row = -1]

\* The text of row i for the point p, f"{i}: ({x}, {y})", as the numbers it shows.
item_text(i, p) == <<i, p[1], p[2]>>

\* KeypointLabeler.update_keypoint_list: the list widget is cleared and refilled
\* with one row for each of the shell's keypoints; no row is current afterwards.
update_keypoint_list(w) ==
    [list_clear(w) EXCEPT
        !.list_count = Len(w.app_keypoints),
        !.list_items = [i \in 1..Len(w.app_keypoints) |->
                            item_text(i - 1, w.app_keypoints[i])]]

\* An in-place change of the shell's list: the canvas sees it when shared.
app_mutate_keypoints(w, kps) ==
    [w EXCEPT !.app_keypoints = kps,
              !.keypoints = IF w.shared THEN kps ELSE @]

\* KeypointLabeler.add_keypoint(x, y)
\* canvas.set_keypoints(self.keypoints): the canvas is handed the shell's list.
set_keypoints_of_app(w) == set_keypoints(w, w.app_keypoints, TRUE)

add_keypoint(w, x, y) ==
    set_keypoints_of_app(
        update_keypoint_list(
            app_mutate_keypoints(w, Append(w.app_keypoints, <<x, y>>))))

\* KeypointLabeler.add_keypoint_manual(): a point at the centre of the widget.
add_keypoint_manual(w) == add_keypoint(w, ViewW \div 2, ViewH \div 2)

\* KeypointLabeler.delete_selected_point().  For a current row beyond the end of
\* the list (the list widget is not refreshed by every change the canvas makes)
\* the del raises IndexError and the slot ends there.
app_delete_selected_point(w) ==
    IF w.current_row >= 0
    THEN IF w.current_row >= Len(w.app_keypoints) THEN w
         ELSE set_keypoints_of_app(
                  update_keypoint_list(
                      app_mutate_keypoints(w, DelAt(w.app_keypoints, w.current_row + 1))))
    ELSE w

\* KeypointLabeler.clear_all_keypoints()
clear_all_keypoints(w) ==
    set_keypoints_of_app(update_keypoint_list(app_mutate_keypoints(w, << >>)))

\* KeypointLabeler.swap_selected_points(): selected_rows are the rows of
\* keypoint_list.selectedItems(), 0-based.  The rows are read with item.row(),
\* which QListWidgetItem does not have: with an item selected the call raises
\* AttributeError before anything is changed and the slot ends there; with
\* none selected the list of rows is empty, not of length 2.
swap_selected_points(w, selected_rows) ==
    IF Len(selected_rows) > 0 THEN w
    ELSE IF Len(selected_rows) = 2
         THEN set_keypoints_of_app(
                  update_keypoint_list(
                      app_mutate_keypoints(w,
                          [w.app_keypoints EXCEPT
                              ![selected_rows[1] + 1] = w.app_keypoints[selected_rows[2] + 1],
                              ![selected_rows[2] + 1] = w.app_keypoints[selected_rows[1] + 1]])))
         ELSE w

\* KeypointLabeler.move_keypoint(index, x, y)
move_keypoint(w, index, x, y) ==
    IF 0 <= index /\ index < Len(w.app_keypoints)
    THEN update_keypoint_list(
             app_mutate_keypoints(w, [w.app_keypoints EXCEPT ![index + 1] = <<x, y>>]))
    ELSE w

\* The point a row's text gives, as on_keypoint_order_changed reads it: the two
\* integers between the brackets after ": ".
item_point(text) == <<text[2], text[3]>>

\* KeypointLabeler.on_keypoint_order_changed(): the shell's keypoints become a
\* new list read back from the rows' texts, and the canvas is handed that list.
on_keypoint_order_changed(w) ==
    set_keypoints_of_app(
        [w EXCEPT !.app_keypoints = [i \in 1..w.list_count |-> item_point(w.list_items[i])],
                  !.shared = FALSE])

\* The sequence s with its element at 1-based position i moved to position j.
MoveTo(s, i, j) ==
    [k \in 1..Len(s) |->
        IF k = j THEN s[i]
        ELSE IF i < j /\ i <= k /\ k < j THEN s[k + 1]
        ELSE IF j < i /\ j < k /\ k <= i THEN s[k - 1]
        ELSE s[k]]

\* The current row of the list is dragged to the place of another row (the
\* list's drag-and-drop mode is InternalMove): the row is moved with its text,
\* it stays the current row, and the list model's rowsMoved signal runs
\* on_keypoint_order_changed.
list_row_dragged(w, row) ==
    IF w.current_row >= 0 /\ w.current_row < w.list_count /\ row /= w.current_row
    THEN on_keypoint_order_changed(
             [w EXCEPT !.list_items = MoveTo(w.list_items, w.current_row + 1, row + 1),
                       !.current_row = row])
    ELSE w

\* KeypointLabeler.select_keypoint(index): setCurrentRow, whose
\* itemSelectionChanged signal runs on_keypoint_selection_changed.
app_select_keypoint(w, index) ==
    IF 0 <= index /\ index < w.list_count
    THEN IF w.current_row = index THEN w
         ELSE on_keypoint_selection_changed([w EXCEPT !.current_row = index])
    ELSE w

\* point_added(index, x, y) is connected to add_keypoint(x, y), a slot of two
\* parameters: the binding calls it with the signal's first two arguments.
emit_point_added(w, index, x, y) ==
    IF w.connected THEN add_keypoint(w, index, x) ELSE w

emit_point_moved(w, index, x, y) ==
    IF w.connected THEN move_keypoint(w, index, x, y) ELSE w

emit_point_selected(w, index) ==
    IF w.connected THEN app_select_keypoint(w, index) ELSE w

(***************************************************************************)
(* Undo engine                                                             *)
(***************************************************************************)
\* The 'data' dictionaries of the undo records, with the keys a kind of
\* record does not have set to None / -1.
add_data(pos) ==
    [index |-> -1, position |-> pos, old_position |-> None, new_position |-> None]
delete_data(index, point) ==
    [index |-> index, position |-> point, old_position |-> None, new_position |-> None]
move_data(index, old, new) ==
    [index |-> index, position |-> None, old_position |-> old, new_position |-> new]

\* A variant of save_state_for_undo that never evicts.
save_state_unbounded(w, action_type, data) ==
    [w EXCEPT !.undo_stack =
        Append(@, [action_type |-> action_type,
                   keypoints_before |-> w.keypoints,
                   selected_point_before |-> w.selected_point,
                   data |-> data])]

\* ImageCanvas.save_state_for_undo(action_type, data)
save_state_for_undo(w, action_type, data) ==
    LET state == [action_type |-> action_type,
                  keypoints_before |-> w.keypoints,
                  selected_point_before |-> w.selected_point,
                  data |-> data]
        pushed == Append(w.undo_stack, state)
    IN  [w EXCEPT !.undo_stack =
            IF Len(pushed) > max_undo_steps THEN Tail(pushed) ELSE pushed]

\* A variant of undo_move that writes the record's new position back.
undo_move_to_new_position(w, previous_state) ==
    IF 0 <= previous_state.data.index /\ previous_state.data.index < Len(w.keypoints)
    THEN [mutate_keypoints(w,
              [w.keypoints EXCEPT ![previous_state.data.index + 1] =
                                      previous_state.data.new_position])
            EXCEPT !.selected_point = previous_state.data.index]
    ELSE w

\* A variant of undo_move that restores the whole sequence the record kept.
undo_move_full_restore(w, previous_state) ==
    IF 0 <= previous_state.data.index /\ previous_state.data.index < Len(w.keypoints)
    THEN [mutate_keypoints(w, previous_state.keypoints_before)
            EXCEPT !.selected_point = previous_state.data.index]
    ELSE w

\* undo(), the branch of a 'move' record (lines 644-653): only the point is
\* written back, and the selection set to it.
undo_move(w, previous_state) ==
    IF 0 <= previous_state.data.index /\ previous_state.data.index < Len(w.keypoints)
    THEN [mutate_keypoints(w,
              [w.keypoints EXCEPT ![previous_state.data.index + 1] =
                                      previous_state.data.old_position])
            EXCEPT !.selected_point = previous_state.data.index]
    ELSE w

\* A variant of undo_structural that restores the sequence but not the selection.
undo_structural_keeps_selection(w, previous_state) ==
    [w EXCEPT !.keypoints = previous_state.keypoints_before,
              !.shared = FALSE,
              !.last_added_point =
                  IF previous_state.action_type = "add" THEN -1 ELSE @]

\* A variant of undo_structural that leaves last_added_point as it is.
undo_structural_keeps_last_added(w, previous_state) ==
    [w EXCEPT !.keypoints = previous_state.keypoints_before,
              !.shared = FALSE,
              !.selected_point = previous_state.selected_point_before]

\* undo(), the branch of an 'add' or 'delete' record (lines 654-662): the whole
\* sequence and the selection are restored; the canvas gets a new list object.
undo_structural(w, previous_state) ==
    [w EXCEPT !.keypoints = previous_state.keypoints_before,
              !.shared = FALSE,
              !.selected_point = previous_state.selected_point_before,
              !.last_added_point =
                  IF previous_state.action_type = "add" THEN -1 ELSE @]

\* ImageCanvas.undo(): it ends without a return statement on every path, so
\* the call's value is None.
\* undo(), lines 642-668: the record popped is applied by its kind, then the
\* display is refreshed and point_moved(-1, 0, 0) emitted.
undo_apply(w, previous_state) ==
    emit_point_moved(
        IF previous_state.action_type = "move"
        THEN undo_move(w, previous_state)
        ELSE undo_structural(w, previous_state),
        -1, 0, 0)

undo(w) ==
    IF w.undo_stack = << >> THEN [w EXCEPT !.undo_result = "None"]
    ELSE [undo_apply([w EXCEPT !.undo_stack = SubSeq(@, 1, Len(@) - 1)],
                     w.undo_stack[Len(w.undo_stack)])
            EXCEPT !.undo_result = "None"]

\* ImageCanvas.can_undo()
can_undo(w) == Len(w.undo_stack) > 0

(***************************************************************************)
(* Point operations                                                        *)
(***************************************************************************)
\* The loop of handle_point_click over enumerate(self.keypoints): i is the
\* 1-based position examined next, min_d2 the square of min_distance and
\* closest the 0-based index found so far.  A point replaces the one found only
\* when it is strictly nearer.
RECURSIVE closest_from(_, _, _, _, _)
closest_from(kps, image_pos, i, min_d2, closest) ==
    IF i > Len(kps) THEN closest
    ELSE IF dist2(kps[i], image_pos) < min_d2
         THEN closest_from(kps, image_pos, i + 1, dist2(kps[i], image_pos), i - 1)
         ELSE closest_from(kps, image_pos, i + 1, min_d2, closest)

\* The loop with a point replacing the one found when it is as near.
RECURSIVE closest_from_last(_, _, _, _, _, _)
closest_from_last(kps, image_pos, i, hit, min_d2, closest) ==
    IF i > Len(kps) THEN closest
    ELSE IF dist2(kps[i], image_pos) < hit /\ dist2(kps[i], image_pos) <= min_d2
         THEN closest_from_last(kps, image_pos, i + 1, hit,
                                dist2(kps[i], image_pos), i - 1)
         ELSE closest_from_last(kps, image_pos, i + 1, hit, min_d2, closest)

\* A variant of closest_within that takes the last of the nearest points.
closest_within_last(w, image_pos, hit) ==
    closest_from_last(w.keypoints, image_pos, 1, hit, hit, -1)

\* hit is the square of the hit radius.
closest_within(w, image_pos, hit) == closest_from(w.keypoints, image_pos, 1, hit, -1)

closest_point(w, image_pos) ==
    closest_within(w, image_pos, hit_radius(w) * hit_radius(w))

\* float('inf') of Tools.find_closest_point, as the square of a distance.
inf == -1

\* The loop of Tools.find_closest_point over enumerate(points): i is the 1-based
\* position examined next, min_d2 the square of min_distance (inf at first) and
\* closest_index the 0-based index found so far.
RECURSIVE find_closest_from(_, _, _, _, _)
find_closest_from(target, points, i, min_d2, closest_index) ==
    IF i > Len(points) THEN <<closest_index, min_d2>>
    ELSE IF min_d2 = inf \/ dist2(target, points[i]) < min_d2
         THEN find_closest_from(target, points, i + 1, dist2(target, points[i]), i - 1)
         ELSE find_closest_from(target, points, i + 1, min_d2, closest_index)

\* Tools.find_closest_point(target, points): the index found and the square of
\* the distance returned.
find_closest_point(target, points) ==
    IF points = << >> THEN <<-1, inf>>
    ELSE find_closest_from(target, points, 1, inf, -1)

\* self.keypoints.append(image_pos)
append_keypoint(w, image_pos) == mutate_keypoints(w, Append(w.keypoints, image_pos))

\* handle_point_click, lines 441-446: the point appended is selected and is the
\* last added one; point_added carries its index and coordinates.
select_appended(w, image_pos) ==
    emit_point_added([w EXCEPT !.selected_point = Len(w.keypoints) - 1,
                               !.last_added_point = Len(w.keypoints) - 1],
                     Len(w.keypoints) - 1, image_pos[1], image_pos[2])

\* handle_point_click, lines 433-446, with the index found by the search.
click_resolved(w, image_pos, closest) ==
    IF closest >= 0
    THEN emit_point_selected([w EXCEPT !.selected_point = closest], closest)
    ELSE select_appended(
             append_keypoint(save_state_for_undo(w, "add", add_data(image_pos)),
                             image_pos),
             image_pos)

\* handle_point_click, lines 419-446, with the image position of the press.
click_at(w, image_pos) ==
    IF image_pos = None THEN w
    ELSE click_resolved(w, image_pos, closest_point(w, image_pos))

\* ImageCanvas.handle_point_click(pos)
handle_point_click(w, pos) == click_at(w, screen_to_image_coords(w, pos))

\* handle_right_click / delete_selected_point: del self.keypoints[i] after the
\* record of the deletion has been pushed.
delete_at(w, i) ==
    mutate_keypoints(save_state_for_undo(w, "delete", delete_data(i, w.keypoints[i + 1])),
                     DelAt(w.keypoints, i + 1))

\* A variant of after_right_delete that leaves a selection above i where it was.
after_right_delete_no_shift(w, i) ==
    emit_point_moved(
        [w EXCEPT !.selected_point = IF @ = i THEN -1 ELSE @,
                  !.last_added_point = -1],
        -1, 0, 0)

\* handle_right_click, lines 460-468: the selection follows the deletion of index i.
after_right_delete(w, i) ==
    emit_point_moved(
        [w EXCEPT !.selected_point = IF @ = i THEN -1 ELSE IF @ > i THEN @ - 1 ELSE @,
                  !.last_added_point = -1],
        -1, 0, 0)

\* A variant of handle_right_click that deletes only when the press is over the
\* image.
handle_right_click_over_image(w, pos) ==
    IF /\ w.last_added_point >= 0 /\ w.last_added_point < Len(w.keypoints)
       /\ screen_to_image_coords(w, pos) # None
    THEN after_right_delete(delete_at(w, w.last_added_point), w.last_added_point)
    ELSE w

\* ImageCanvas.handle_right_click(pos)
handle_right_click(w, pos) ==
    IF w.last_added_point >= 0 /\ w.last_added_point < Len(w.keypoints)
    THEN after_right_delete(delete_at(w, w.last_added_point), w.last_added_point)
    ELSE w

\* self.keypoints[self.selected_point] = [x, y] and point_moved(selected, x, y)
set_selected(w, x, y) ==
    emit_point_moved(
        mutate_keypoints(w, [w.keypoints EXCEPT ![w.selected_point + 1] = <<x, y>>]),
        w.selected_point, x, y)

\* handle_point_drag, lines 478-490, with the image position of the pointer.
\* With a selection beyond the end of the list the item assignment raises
\* IndexError and the handler ends there.
drag_to(w, image_pos) ==
    IF image_pos = None THEN w
    ELSE IF w.selected_point >= Len(w.keypoints) THEN w
    ELSE set_selected(w, Max(0, Min(w.pixmap[1] - 1, image_pos[1])),
                         Max(0, Min(w.pixmap[2] - 1, image_pos[2])))

\* ImageCanvas.handle_point_drag(pos)
handle_point_drag(w, pos) ==
    IF w.selected_point < 0 THEN w
    ELSE drag_to(w, screen_to_image_coords(w, pos))

\* move_selected_point, lines 503-507: the move is recorded, then made.
record_and_set(w, p, new_x, new_y) ==
    set_selected(
        save_state_for_undo(w, "move", move_data(w.selected_point, p, <<new_x, new_y>>)),
        new_x, new_y)

\* A variant of nudge_from that does not keep the point inside the image.
nudge_unclamped(w, p, dx, dy) ==
    record_and_set(w, p, p[1] + dx, p[2] + dy)

\* move_selected_point, lines 496-507, with the selected point p.
nudge_from(w, p, dx, dy) ==
    record_and_set(w, p,
        Max(0, Min(IF w.pixmap # None THEN w.pixmap[1] - 1 ELSE no_pixmap_limit,
                   p[1] + dx)),
        Max(0, Min(IF w.pixmap # None THEN w.pixmap[2] - 1 ELSE no_pixmap_limit,
                   p[2] + dy)))

\* ImageCanvas.move_selected_point(dx, dy)
move_selected_point(w, dx, dy) ==
    IF w.selected_point < 0 \/ w.selected_point >= Len(w.keypoints) THEN w
    ELSE nudge_from(w, w.keypoints[w.selected_point + 1], dx, dy)

\* ImageCanvas.delete_selected_point()
delete_selected_point(w) ==
    IF w.selected_point >= 0 /\ w.selected_point < Len(w.keypoints)
    THEN [delete_at(w, w.selected_point) EXCEPT !.selected_point = -1]
    ELSE w

(***************************************************************************)
(* View operations                                                         *)
(***************************************************************************)
zoom_max == float_10_0
zoom_min == float_0_1

\* ImageCanvas.zoom_in(): zoom_factor *= 1.2, at most 10.0
zoom_in(w) == [w EXCEPT !.zoom_factor = float_min(zoom_max, float_mul(@, float_1_2))]

\* ImageCanvas.zoom_out(): zoom_factor /= 1.2, at least 0.1
zoom_out(w) == [w EXCEPT !.zoom_factor = float_max(zoom_min, float_div(@, float_1_2))]

\* ImageCanvas.reset_view()
reset_view(w) == [w EXCEPT !.zoom_factor = float_1_0, !.pan_offset = <<0, 0>>]

\* ImageCanvas.fit_to_window()
fit_to_window(w) ==
    IF w.pixmap # None
    THEN [w EXCEPT !.zoom_factor = float_1_0, !.pan_offset = <<0, 0>>]
    ELSE w

\* A variant of wheel_zoom without the limits of the range.
wheel_zoom_unclamped(w, up) ==
    [w EXCEPT !.zoom_factor = float_mul(@, IF up THEN float_1_1 ELSE float_0_9)]

\* wheelEvent, lines 320-331: zoom_factor *= 1.1 (delta > 0) or 0.9, kept within
\* 0.1 .. 10.0.
wheel_zoom(w, up) ==
    [w EXCEPT !.zoom_factor =
        float_max(zoom_min, float_min(zoom_max,
            float_mul(@, IF up THEN float_1_1 ELSE float_0_9)))]

\* QRect.contains(QPoint) for r = <<x, y, width, height>>: the pixels of the
\* rectangle, its far edges excluded; an empty rectangle contains nothing.
rect_contains(r, pos) ==
    /\ r[3] > 0 /\ r[4] > 0
    /\ r[1] <= pos[1] /\ pos[1] < r[1] + r[3]
    /\ r[2] <= pos[2] /\ pos[2] < r[2] + r[4]

\* int(mouse - (mouse - pan) * zoom_ratio), lines 340-342, on one axis.
pan_axis(mouse, pan, ratio) ==
    int_of_float(float_sub(float_of_int(mouse),
                           float_mul(float_of_int(mouse - pan), ratio)))

\* wheelEvent, lines 339-342: the pan offset for the zoom ratio.
pan_about(w, mouse_pos, ratio) ==
    [w EXCEPT !.pan_offset =
        <<pan_axis(mouse_pos[1], @[1], ratio), pan_axis(mouse_pos[2], @[2], ratio)>>]

\* wheelEvent, lines 333-342, w having the new zoom factor: when the factor has
\* changed and the rectangle of the image (at the new factor) contains the
\* pointer, the pan offset is adjusted.
wheel_pan(w, mouse_pos, old_zoom) ==
    IF w.zoom_factor # old_zoom /\ rect_contains(get_image_rect(w), mouse_pos)
    THEN pan_about(w, mouse_pos, float_div(w.zoom_factor, old_zoom))
    ELSE w

\* ImageCanvas.wheelEvent: up says that angleDelta().y() > 0, ctrl that the
\* Control modifier is held (without it the event goes to QWidget).
wheelEvent(w, mouse_pos, up, ctrl) ==
    IF ctrl THEN wheel_pan(wheel_zoom(w, up), mouse_pos, w.zoom_factor)
    ELSE w

\* ImageCanvas.load_image / load_dicom followed by update_display: the pixmap
\* becomes the decoded image; nothing else of the canvas changes.
load_image(w, size) == [w EXCEPT !.pixmap = size]

\* KeypointLabeler.load_file(file_path): size is the decoded image's size, kps
\* the keypoints of the JSON file beside it ([] without one).
load_file(w, size, kps) ==
    set_keypoints_of_app(
        update_keypoint_list([load_image(w, size) EXCEPT !.app_keypoints = kps]))

\* A row of the shell's list is clicked: it becomes the current row, and
\* itemSelectionChanged runs on_keypoint_selection_changed.
list_row_clicked(w, row) ==
    IF w.current_row = row THEN w
    ELSE on_keypoint_selection_changed([w EXCEPT !.current_row = row])

(***************************************************************************)
(* Event handlers                                                          *)
(***************************************************************************)
\* mousePressEvent, lines 256-273: the drag starts when the selected point p is
\* within the hit radius of the press.
drag_if_near(w, p, image_pos) ==
    IF dist2(p, image_pos) < hit_radius(w) * hit_radius(w)
    THEN [w EXCEPT !.drag_start_position = p, !.dragging = TRUE]
    ELSE [w EXCEPT !.drag_start_position = None, !.dragging = FALSE]

\* mousePressEvent, lines 254-273, with the image position of the press.
\* keypoints[selected_point] raises IndexError for a selection beyond the end of
\* the list, which ends the handler.
start_drag_at(w, image_pos) ==
    IF image_pos # None /\ w.selected_point >= 0
    THEN IF w.selected_point >= Len(w.keypoints) THEN w
         ELSE drag_if_near(w, w.keypoints[w.selected_point + 1], image_pos)
    ELSE [w EXCEPT !.drag_start_position = None, !.dragging = FALSE]

\* The part of mousePressEvent after handle_point_click: whether a drag starts.
start_drag(w, pos) == start_drag_at(w, screen_to_image_coords(w, pos))

\* mousePressEvent, line 278: self.last_mouse_pos = event.pos(), not reached
\* when the handler raised.
set_last_mouse_pos(w, pos, raised) ==
    IF raised THEN w ELSE [w EXCEPT !.last_mouse_pos = pos]

\* mousePressEvent, lines 253-278, with the image position of the press: w is
\* the canvas after handle_point_click.
press_drag(w, pos, image_pos) ==
    set_last_mouse_pos(start_drag_at(w, image_pos), pos,
                       image_pos # None /\ w.selected_point >= Len(w.keypoints))

press_clicked(w, pos) == press_drag(w, pos, screen_to_image_coords(w, pos))

\* ImageCanvas.mousePressEvent: button is "left" or "right", alt the Alt modifier.
mousePressEvent(w, pos, button, alt) ==
    IF button = "left"
    THEN IF alt THEN [w EXCEPT !.mouse_mode = "pan", !.last_mouse_pos = pos]
         ELSE press_clicked(handle_point_click([w EXCEPT !.mouse_mode = "select"], pos),
                            pos)
    ELSE IF button = "right"
         THEN [handle_right_click(w, pos) EXCEPT !.last_mouse_pos = pos]
         ELSE [w EXCEPT !.last_mouse_pos = pos]

\* A variant of mouseMoveEvent that drags but does not pan.
mouseMoveEvent_without_pan(w, pos, left) ==
    IF left /\ w.mouse_mode = "select" /\ w.selected_point >= 0
    THEN set_last_mouse_pos(handle_point_drag(w, pos), pos,
             /\ w.selected_point >= Len(w.keypoints)
             /\ screen_to_image_coords(w, pos) # None)
    ELSE [w EXCEPT !.last_mouse_pos = pos]

\* ImageCanvas.mouseMoveEvent: left says that the primary button is held.
mouseMoveEvent(w, pos, left) ==
    IF left
    THEN IF w.mouse_mode = "select" /\ w.selected_point >= 0
         THEN set_last_mouse_pos(handle_point_drag(w, pos), pos,
                  /\ w.selected_point >= Len(w.keypoints)
                  /\ screen_to_image_coords(w, pos) # None)
         ELSE IF w.mouse_mode = "pan"
              THEN [w EXCEPT !.pan_offset = <<@[1] + pos[1] - w.last_mouse_pos[1],
                                              @[2] + pos[2] - w.last_mouse_pos[2]>>,
                             !.last_mouse_pos = pos]
              ELSE [w EXCEPT !.last_mouse_pos = pos]
    ELSE [w EXCEPT !.last_mouse_pos = pos]

\* mouseReleaseEvent, lines 309-314: the drag state is left.
end_drag(w) ==
    [w EXCEPT !.mouse_mode = "select", !.dragging = FALSE, !.drag_start_position = None]

\* A variant of record_drag that records the drag whether or not the point moved.
record_drag_always(w, current_position) ==
    save_state_for_undo(w, "move",
        move_data(w.selected_point, w.drag_start_position, current_position))

\* mouseReleaseEvent, lines 300-307: a drag that moved the point is recorded.
record_drag(w, current_position) ==
    IF current_position # w.drag_start_position
    THEN save_state_for_undo(w, "move",
             move_data(w.selected_point, w.drag_start_position, current_position))
    ELSE w

\* ImageCanvas.mouseReleaseEvent (of any button)
mouseReleaseEvent(w) ==
    IF w.dragging /\ w.selected_point >= 0 /\ w.drag_start_position # None
    THEN IF w.selected_point >= Len(w.keypoints) THEN w    \* IndexError
         ELSE end_drag(record_drag(w, w.keypoints[w.selected_point + 1]))
    ELSE end_drag(w)

\* ImageCanvas.keyPressEvent.  key is one of "Z", "Plus", "Minus", "0", "Space",
\* "Left", "Right", "Up", "Down", "Delete"; ctrl and shift are the modifiers.
keyPressEvent(w, key, ctrl, shift) ==
    IF ctrl /\ key = "Z" THEN undo(w)
    ELSE IF ctrl /\ key = "Plus" THEN zoom_in(w)
    ELSE IF ctrl /\ key = "Minus" THEN zoom_out(w)
    ELSE IF ctrl /\ key = "0" THEN reset_view(w)
    ELSE IF key = "Space" THEN [w EXCEPT !.mouse_mode = "pan"]
    ELSE IF w.mouse_mode = "pan" /\ key \in {"Left", "Right", "Up", "Down"}
    THEN LET pan_step == IF shift THEN 20 ELSE 10
         IN  [w EXCEPT !.pan_offset =
                CASE key = "Left"  -> <<@[1] + pan_step, @[2]>>
                  [] key = "Right" -> <<@[1] - pan_step, @[2]>>
                  [] key = "Up"    -> <<@[1], @[2] + pan_step>>
                  [] key = "Down"  -> <<@[1], @[2] - pan_step>>]
    ELSE IF w.selected_point >= 0
    THEN LET step == IF shift THEN 10 ELSE 1
         IN  CASE key = "Left"   -> move_selected_point(w, -step, 0)
               [] key = "Right"  -> move_selected_point(w, step, 0)
               [] key = "Up"     -> move_selected_point(w, 0, -step)
               [] key = "Down"   -> move_selected_point(w, 0, step)
               [] key = "Delete" -> delete_selected_point(w)
               [] OTHER          -> w
    ELSE w

\* ImageCanvas.keyReleaseEvent
keyReleaseEvent(w, key) ==
    IF key = "Space" THEN [w EXCEPT !.mouse_mode = "select"] ELSE w

(***************************************************************************)
(* Persistence (src/viewer/json_io.py, class JSONIO)                       *)
(*                                                                         *)
(* A file's text is a sequence of tokens: punctuation <<"p", c>>, a run of *)
(* white space <<"w", " ">>, a string literal <<"s", s>> and an integer    *)
(* literal <<"n", n>>.  A JSON value is <<"num", n>>, <<"str", s>>,        *)
(* <<"arr", values>> or <<"obj", members>>, members being <<key, value>>   *)
(* pairs in insertion order, as Python's dict keeps them.  A Python list   *)
(* of pairs (the keypoints) is a sequence of tuples of integers.           *)
(***************************************************************************)
LBrace == <<"p", "{">>
RBrace == <<"p", "}">>
LBracket == <<"p", "[">>
RBracket == <<"p", "]">>
Comma == <<"p", ",">>
Colon == <<"p", ":">>
White == <<"w", " ">>

\* dict[key] = value: the key keeps its place if present, else comes last.
RECURSIVE dict_set(_, _, _)
dict_set(members, key, value) ==
    IF members = << >> THEN << <<key, value>> >>
    ELSE IF Head(members)[1] = key THEN << <<key, value>> >> \o Tail(members)
    ELSE << Head(members) >> \o dict_set(Tail(members), key, value)

\* key in dict
dict_has(members, key) == \E i \in 1..Len(members) : members[i][1] = key

\* dict[key], the key being present
dict_get(members, key) ==
    members[CHOOSE i \in 1..Len(members) : members[i][1] = key][2]

\* dict.update(other)
RECURSIVE dict_update(_, _)
dict_update(members, other) ==
    IF other = << >> THEN members
    ELSE dict_update(dict_set(members, Head(other)[1], Head(other)[2]), Tail(other))

\* json.dump(value, f, indent=2): every element and member on a line of its
\* own, ", " never used, ": " between a key and its value, [] and {} for the
\* empty containers.
RECURSIVE json_dump(_), dump_elements(_), dump_members(_)
json_dump(v) ==
    CASE v[1] = "num" -> << <<"n", v[2]>> >>
      [] v[1] = "str" -> << <<"s", v[2]>> >>
      [] v[1] = "arr" -> IF v[2] = << >> THEN <<LBracket, RBracket>>
                         ELSE <<LBracket>> \o dump_elements(v[2]) \o <<White, RBracket>>
      [] v[1] = "obj" -> IF v[2] = << >> THEN <<LBrace, RBrace>>
                         ELSE <<LBrace>> \o dump_members(v[2]) \o <<White, RBrace>>

dump_elements(values) ==
    <<White>> \o json_dump(Head(values))
        \o (IF Tail(values) = << >> THEN << >>
            ELSE <<Comma>> \o dump_elements(Tail(values)))

dump_members(members) ==
    <<White, <<"s", Head(members)[1]>>, Colon, White>> \o json_dump(Head(members)[2])
        \o (IF Tail(members) = << >> THEN << >>
            ELSE <<Comma>> \o dump_members(Tail(members)))

\* The decoder's result: a value and the text after it, or a JSONDecodeError.
Decoded(v, rest) == [ok |-> TRUE, v |-> v, rest |-> rest]
JSONDecodeError == [ok |-> FALSE, v |-> << >>, rest |-> << >>]

\* White space before a token is skipped.
RECURSIVE skip_white(_)
skip_white(text) ==
    IF text # << >> /\ Head(text)[1] = "w" THEN skip_white(Tail(text)) ELSE text

\* json's decoder: a value, the elements of an array after "[" and the members
\* of an object after "{"; acc holds what has been decoded of the container.
RECURSIVE decode_value(_), decode_elements(_, _), decode_members(_, _)
decode_value(text) ==
    IF skip_white(text) = << >> THEN JSONDecodeError
    ELSE IF Head(skip_white(text))[1] = "n"
         THEN Decoded(<<"num", Head(skip_white(text))[2]>>, Tail(skip_white(text)))
    ELSE IF Head(skip_white(text))[1] = "s"
         THEN Decoded(<<"str", Head(skip_white(text))[2]>>, Tail(skip_white(text)))
    ELSE IF Head(skip_white(text)) = LBracket
         THEN IF /\ skip_white(Tail(skip_white(text))) # << >>
                 /\ Head(skip_white(Tail(skip_white(text)))) = RBracket
              THEN Decoded(<<"arr", << >> >>, Tail(skip_white(Tail(skip_white(text)))))
              ELSE decode_elements(Tail(skip_white(text)), << >>)
    ELSE IF Head(skip_white(text)) = LBrace
         THEN IF /\ skip_white(Tail(skip_white(text))) # << >>
                 /\ Head(skip_white(Tail(skip_white(text)))) = RBrace
              THEN Decoded(<<"obj", << >> >>, Tail(skip_white(Tail(skip_white(text)))))
              ELSE decode_members(Tail(skip_white(text)), << >>)
    ELSE JSONDecodeError

\* After the element decoded, "," brings another element and "]" ends the array.
elements_after(d, acc) ==
    IF ~d.ok \/ skip_white(d.rest) = << >> THEN JSONDecodeError
    ELSE IF Head(skip_white(d.rest)) = Comma
         THEN decode_elements(Tail(skip_white(d.rest)), Append(acc, d.v))
    ELSE IF Head(skip_white(d.rest)) = RBracket
         THEN Decoded(<<"arr", Append(acc, d.v)>>, Tail(skip_white(d.rest)))
    ELSE JSONDecodeError

decode_elements(text, acc) == elements_after(decode_value(text), acc)

\* After the member's value decoded, "," brings another member and "}" ends
\* the object; a key met again takes the later value.
members_after(key, d, acc) ==
    IF ~d.ok \/ skip_white(d.rest) = << >> THEN JSONDecodeError
    ELSE IF Head(skip_white(d.rest)) = Comma
         THEN decode_members(Tail(skip_white(d.rest)), dict_set(acc, key, d.v))
    ELSE IF Head(skip_white(d.rest)) = RBrace
         THEN Decoded(<<"obj", dict_set(acc, key, d.v)>>, Tail(skip_white(d.rest)))
    ELSE JSONDecodeError

\* A member: a string key, ":" and a value.
member_from(key_text, acc) ==
    IF key_text = << >> \/ Head(key_text)[1] # "s" THEN JSONDecodeError
    ELSE IF skip_white(Tail(key_text)) = << >> \/ Head(skip_white(Tail(key_text))) # Colon
         THEN JSONDecodeError
    ELSE members_after(Head(key_text)[2],
                       decode_value(Tail(skip_white(Tail(key_text)))), acc)

decode_members(text, acc) == member_from(skip_white(text), acc)

\* json.load(f): one value, with nothing but white space after it.
document_of(d) ==
    IF d.ok /\ skip_white(d.rest) = << >> THEN d ELSE JSONDecodeError

json_load(text) == document_of(decode_value(text))

\* A file: absent, or present with its text.
Absent == [exists |-> FALSE, text |-> << >>]
File(text) == [exists |-> TRUE, text |-> text]

\* os.path.exists(path)
path_exists(fs, path) == path \in DOMAIN fs /\ fs[path].exists

\* The keypoints as the JSON array json.dump writes for them.
RECURSIVE coord_value(_)
coord_value(pairs) ==
    IF pairs = << >> THEN << >>
    ELSE << <<"arr", << <<"num", Head(pairs)[1]>>, <<"num", Head(pairs)[2]>> >> >> >>
             \o coord_value(Tail(pairs))

\* load_keypoints, lines 32-39: the elements that are lists of two numbers,
\* as pairs of integers (int(round(x)) of an integer is the integer).
RECURSIVE valid_coords(_)
valid_coords(values) ==
    IF values = << >> THEN << >>
    ELSE IF /\ Head(values)[1] = "arr" /\ Len(Head(values)[2]) = 2
            /\ Head(values)[2][1][1] = "num" /\ Head(values)[2][2][1] = "num"
         THEN << <<Head(values)[2][1][2], Head(values)[2][2][2]>> >>
                  \o valid_coords(Tail(values))
    ELSE valid_coords(Tail(values))

\* load_keypoints, lines 26-41, data being the document decoded.  A document
\* that is not an object has no 'coord' to return: the test or the subscript
\* raises, or the test fails, and [] is returned either way (lines 41 and 46-48).
coordinates_of(data) ==
    IF data[1] = "obj" /\ dict_has(data[2], "coord")
       /\ dict_get(data[2], "coord")[1] = "arr"
    THEN valid_coords(dict_get(data[2], "coord")[2])
    ELSE << >>

\* The first index from i on that is past the text or is not white space.
after_white(text, i) ==
    CHOOSE j \in i..(Len(text) + 1) :
        /\ \A k \in i..(j - 1) : text[k][1] = "w"
        /\ j = Len(text) + 1 \/ text[j][1] # "w"

\* The pattern "coord"\s*:\s*\[(.*?)\] matched from index i: the index of the
\* "[" it matches, or 0.
coord_open_at(text, i) ==
    IF text[i] # <<"s", "coord">> THEN 0
    ELSE IF after_white(text, i + 1) > Len(text) \/ text[after_white(text, i + 1)] # Colon
         THEN 0
    ELSE IF \/ after_white(text, after_white(text, i + 1) + 1) > Len(text)
            \/ text[after_white(text, after_white(text, i + 1) + 1)] # LBracket
         THEN 0
    ELSE after_white(text, after_white(text, i + 1) + 1)

\* (.*?)\] from the "[" at index open: the group ends before the first "]".
coord_close(text, open) ==
    IF \E m \in (open + 1)..Len(text) : text[m] = RBracket
    THEN CHOOSE m \in (open + 1)..Len(text) :
             /\ text[m] = RBracket
             /\ \A k \in (open + 1)..(m - 1) : text[k] # RBracket
    ELSE 0

\* re.search(coord_pattern, content, re.DOTALL): the leftmost match's group(1),
\* or no match.
coord_matches_at(text, i) ==
    coord_open_at(text, i) # 0 /\ coord_close(text, coord_open_at(text, i)) # 0

coord_search(text) ==
    IF \E i \in 1..Len(text) : coord_matches_at(text, i)
    THEN LET i == CHOOSE i \in 1..Len(text) :
                      /\ coord_matches_at(text, i)
                      /\ \A k \in 1..(i - 1) : ~coord_matches_at(text, k)
         IN [found |-> TRUE,
             group |-> SubSeq(text, coord_open_at(text, i) + 1,
                              coord_close(text, coord_open_at(text, i)) - 1)]
    ELSE [found |-> FALSE, group |-> << >>]

\* \d+ matches an integer literal without a sign.
digits(token) == token[1] = "n" /\ token[2] >= 0

\* The pattern \[(\d+),\s*(\d+)\] matched from index i: the index of the "]" it
\* matches, or 0.
pair_close_at(text, i) ==
    IF i + 4 > Len(text) THEN 0
    ELSE IF text[i] # LBracket \/ ~digits(text[i + 1]) \/ text[i + 2] # Comma THEN 0
    ELSE IF after_white(text, i + 3) + 1 > Len(text) THEN 0
    ELSE IF /\ digits(text[after_white(text, i + 3)])
            /\ text[after_white(text, i + 3) + 1] = RBracket
         THEN after_white(text, i + 3) + 1
    ELSE 0

\* re.findall(coord_pattern, coord_str) from index i on, as pairs of integers.
RECURSIVE find_pairs(_, _)
find_pairs(text, i) ==
    IF i > Len(text) THEN << >>
    ELSE IF pair_close_at(text, i) # 0
         THEN << <<text[i + 1][2], text[pair_close_at(text, i) - 1][2]>> >>
                  \o find_pairs(text, pair_close_at(text, i) + 1)
    ELSE find_pairs(text, i + 1)

\* JSONIO.load_keypoints(file_path) and JSONIO._try_recover_keypoints(file_path)
RECURSIVE load_keypoints(_, _), try_recover_keypoints(_, _)
load_keypoints(fs, file_path) ==
    IF ~path_exists(fs, file_path) THEN << >>
    ELSE IF json_load(fs[file_path].text).ok
         THEN coordinates_of(json_load(fs[file_path].text).v)
    ELSE try_recover_keypoints(fs, file_path)

try_recover_keypoints(fs, file_path) ==
    IF path_exists(fs, file_path \o ".bak")
    THEN load_keypoints(fs, file_path \o ".bak")
    ELSE IF coord_search(fs[file_path].text).found
         THEN find_pairs(coord_search(fs[file_path].text).group, 1)
    ELSE << >>

\* JSONIO.load_with_metadata(file_path): the value returned.  For a document
\* that is not an object the test 'coord' not in data or the assignment
\* data['coord'] = [] raises, and {'coord': []} is returned (lines 110-112),
\* unless the document is a list that holds "coord" or a string that contains
\* coord, which is returned as it is.
empty_coord == <<"obj", << <<"coord", <<"arr", << >> >> >> >> >>

\* t in s for two Python strings: t occurs in s.
str_contains(s, t) ==
    \E i \in 1..(Len(s) - Len(t) + 1) : SubSeq(s, i, i + Len(t) - 1) = t

metadata_of(data) ==
    IF data[1] = "obj"
    THEN IF dict_has(data[2], "coord") THEN data
         ELSE <<"obj", dict_set(data[2], "coord", <<"arr", << >> >>)>>
    ELSE IF data[1] = "arr" /\ \E i \in 1..Len(data[2]) : data[2][i] = <<"str", "coord">>
         THEN data
    ELSE IF data[1] = "str" /\ str_contains(data[2], "coord") THEN data
    ELSE empty_coord

load_with_metadata(fs, file_path) ==
    IF ~path_exists(fs, file_path) THEN empty_coord
    ELSE IF json_load(fs[file_path].text).ok
         THEN metadata_of(json_load(fs[file_path].text).v)
    ELSE <<"obj", << <<"coord",
                      <<"arr", coord_value(try_recover_keypoints(fs, file_path))>> >> >> >>

\* What a file-system call does: it succeeds, it fails leaving the files as
\* they were, or (a copy, a write) it fails leaving the first half of the text.
Faults == {"ok", "fails", "torn"}

torn(text) == SubSeq(text, 1, Len(text) \div 2)

\* No JSONIO call has been made.
io_idle ==
    [pc |-> "idle", file_path |-> "", keypoints |-> << >>, additional_data |-> << >>,
     data |-> << >>, temp_bound |-> FALSE, result |-> "None"]

\* JSONIO.save_keypoints(file_path, kps, additional_data) is entered;
\* additional_data is a dict's members, << >> for None and for {}.
save_entered(file_path, kps, additional_data) ==
    [pc |-> "backup", file_path |-> file_path, keypoints |-> kps,
     additional_data |-> additional_data, data |-> << >>, temp_bound |-> FALSE,
     result |-> "None"]

\* A variant of create_backup that copies nothing.
create_backup_skipped(fs, c, fault) == [fs |-> fs, io |-> [c EXCEPT !.pc = "convert"]]

\* _create_backup, lines 231-238: shutil.copy2 of an existing file to its
\* .bak; a failure is printed and the save goes on.
create_backup(fs, c, fault) ==
    [fs |-> IF ~path_exists(fs, c.file_path) \/ fault = "fails" THEN fs
            ELSE IF fault = "torn"
                 THEN [fs EXCEPT ![c.file_path \o ".bak"] = File(torn(fs[c.file_path].text))]
            ELSE [fs EXCEPT ![c.file_path \o ".bak"] = fs[c.file_path]],
     io |-> [c EXCEPT !.pc = "convert"]]

\* A variant of convert that leaves additional_data out of the document.
convert_coord_only(fs, c) ==
    IF \A i \in 1..Len(c.keypoints) : Len(c.keypoints[i]) = 2
    THEN [fs |-> fs,
          io |-> [c EXCEPT !.pc = "write",
                           !.data = << <<"coord", <<"arr", coord_value(c.keypoints)>> >> >>]]
    ELSE [fs |-> fs, io |-> [c EXCEPT !.pc = "except"]]

\* save_keypoints, lines 59-70: for x, y in keypoints raises unless every
\* element has two items; data is {'coord': ...} updated with additional_data.
convert(fs, c) ==
    IF \A i \in 1..Len(c.keypoints) : Len(c.keypoints[i]) = 2
    THEN [fs |-> fs,
          io |-> [c EXCEPT !.pc = "write",
                           !.data = dict_update(
                               << <<"coord", <<"arr", coord_value(c.keypoints)>> >> >>,
                               c.additional_data)]]
    ELSE [fs |-> fs, io |-> [c EXCEPT !.pc = "except"]]

\* save_keypoints, lines 73-75: temp_path is bound, the temporary file is
\* opened for writing and json.dump writes the document into it.
write_temp(fs, c, fault) ==
    [fs |-> IF fault = "fails" THEN fs
            ELSE IF fault = "torn"
                 THEN [fs EXCEPT ![c.file_path \o ".tmp"] =
                                     File(torn(json_dump(<<"obj", c.data>>)))]
            ELSE [fs EXCEPT ![c.file_path \o ".tmp"] = File(json_dump(<<"obj", c.data>>))],
     io |-> [c EXCEPT !.pc = IF fault = "ok" THEN "remove" ELSE "except",
                      !.temp_bound = TRUE]]

\* save_keypoints, lines 78-79: os.remove(file_path) if the file exists.
remove_old(fs, c, fault) ==
    IF ~path_exists(fs, c.file_path) THEN [fs |-> fs, io |-> [c EXCEPT !.pc = "rename"]]
    ELSE IF fault = "ok"
         THEN [fs |-> [fs EXCEPT ![c.file_path] = Absent],
               io |-> [c EXCEPT !.pc = "rename"]]
    ELSE [fs |-> fs, io |-> [c EXCEPT !.pc = "except"]]

\* save_keypoints, lines 80-82: os.rename(temp_path, file_path); return True.
rename_temp(fs, c, fault) ==
    IF fault = "ok"
    THEN [fs |-> [fs EXCEPT ![c.file_path] = fs[c.file_path \o ".tmp"],
                           ![c.file_path \o ".tmp"] = Absent],
          io |-> [c EXCEPT !.pc = "done", !.result = "True"]]
    ELSE [fs |-> fs, io |-> [c EXCEPT !.pc = "except"]]

\* save_keypoints, lines 84-89: the handler removes the temporary file and
\* returns False.  With temp_path not yet bound its test raises
\* UnboundLocalError, and a removal that fails raises OSError: the call raises.
save_except(fs, c, fault) ==
    IF ~c.temp_bound THEN [fs |-> fs, io |-> [c EXCEPT !.pc = "done", !.result = "raised"]]
    ELSE IF ~path_exists(fs, c.file_path \o ".tmp")
         THEN [fs |-> fs, io |-> [c EXCEPT !.pc = "done", !.result = "False"]]
    ELSE IF fault = "ok"
         THEN [fs |-> [fs EXCEPT ![c.file_path \o ".tmp"] = Absent],
               io |-> [c EXCEPT !.pc = "done", !.result = "False"]]
    ELSE [fs |-> fs, io |-> [c EXCEPT !.pc = "done", !.result = "raised"]]

\* One step of save_keypoints from the files fs and the call c.
save_step(fs, c, fault) ==
    CASE c.pc = "backup" -> create_backup(fs, c, fault)
      [] c.pc = "convert" -> convert(fs, c)
      [] c.pc = "write" -> write_temp(fs, c, fault)
      [] c.pc = "remove" -> remove_old(fs, c, fault)
      [] c.pc = "rename" -> rename_temp(fs, c, fault)
      [] c.pc = "except" -> save_except(fs, c, fault)

\* The step makes a file-system call that can fail (fault) or be torn.
can_fail(fs, c) ==
    \/ c.pc = "backup" /\ path_exists(fs, c.file_path)
    \/ c.pc = "write"
    \/ c.pc = "remove" /\ path_exists(fs, c.file_path)
    \/ c.pc = "rename"
    \/ c.pc = "except" /\ c.temp_bound /\ path_exists(fs, c.file_path \o ".tmp")

can_tear(fs, c) ==
    \/ c.pc = "backup" /\ path_exists(fs, c.file_path)
    \/ c.pc = "write"

\* The call run to its end, faults[pc] being what the step at pc meets.
RECURSIVE save_run(_, _)
save_run(m, faults) ==
    IF m.io.pc = "done" THEN m
    ELSE save_run(save_step(m.fs, m.io, faults[m.io.pc]), faults)

\* JSONIO.save_keypoints(file_path, keypoints, additional_data)
save_keypoints(fs, file_path, kps, additional_data, faults) ==
    save_run([fs |-> fs, io |-> save_entered(file_path, kps, additional_data)],
             faults)

\* The Python list of pairs held by a decoded coord array.
RECURSIVE pairs_of(_)
pairs_of(values) ==
    IF values = << >> THEN << >>
    ELSE << [i \in 1..Len(Head(values)[2]) |-> Head(values)[2][i][2]] >>
             \o pairs_of(Tail(values))

\* JSONIO.save_with_metadata(file_path, data), data being a dict's members
\* whose coord, if any, is a list of lists of integers.
\* The call of save_keypoints at line 122.
save_with_metadata_call(fs, file_path, data, faults) ==
    IF dict_has(data, "coord")
    THEN save_keypoints(fs, file_path, pairs_of(dict_get(data, "coord")[2]), data, faults)
    ELSE save_keypoints(fs, file_path, << >>,
                        dict_set(data, "coord", <<"arr", << >> >>), faults)

\* Lines 117-126: an exception raised by save_keypoints is caught, and the
\* call returns False.
save_with_metadata(fs, file_path, data, faults) ==
    LET m == save_with_metadata_call(fs, file_path, data, faults)
    IN  IF m.io.result = "raised" THEN [m EXCEPT !.io.result = "False"] ELSE m

(***************************************************************************)
(* The session: the canvas's image and loaders, the shell's current file   *)
(* and what the shell reported last.                                       *)
(***************************************************************************)
\* ImageCanvas.__init__ and KeypointLabeler.__init__: no image, no file.
new_session ==
    [image |-> "None", is_dicom |-> FALSE, dicom_loader |-> "None",
     current_file |-> "None", current_index |-> -1, auto_save |-> TRUE,
     report |-> "None", dialog |-> "None"]

\* No file exists.
no_files == [path \in {} |-> Absent]

\* ImageCanvas.load_image(file_path), f being the file: its decoding raises
\* (ImageLoader.load_image), or image, is_dicom and dicom_loader are assigned
\* and the pixmap becomes the image (the array decoded is two-dimensional, which
\* update_display converts).
canvas_load_image(w, s, f) ==
    IF f.fails = "decode" THEN [w |-> w, s |-> s, raised |-> TRUE]
    ELSE [w |-> load_image(w, f.size),
          s |-> [s EXCEPT !.image = f.name, !.is_dicom = FALSE, !.dicom_loader = "None"],
          raised |-> FALSE]

\* ImageCanvas.load_dicom(file_path): DICOMLoader(file_path) raises, or
\* get_image() raises after dicom_loader has been assigned, or update_display
\* raises after image and is_dicom have been assigned too, or the pixmap
\* becomes the image.
canvas_load_dicom(w, s, f) ==
    IF f.fails = "decode" THEN [w |-> w, s |-> s, raised |-> TRUE]
    ELSE IF f.fails = "get_image"
         THEN [w |-> w, s |-> [s EXCEPT !.dicom_loader = f.name], raised |-> TRUE]
    ELSE IF f.fails = "display"
         THEN [w |-> w,
               s |-> [s EXCEPT !.dicom_loader = f.name, !.image = f.name,
                               !.is_dicom = TRUE],
               raised |-> TRUE]
    ELSE [w |-> load_image(w, f.size),
          s |-> [s EXCEPT !.dicom_loader = f.name, !.image = f.name, !.is_dicom = TRUE],
          raised |-> FALSE]

\* KeypointLabeler.load_file, lines 344-349
canvas_load(w, s, f) ==
    IF f.suffix = ".dcm" THEN canvas_load_dicom(w, s, f) ELSE canvas_load_image(w, s, f)

\* KeypointLabeler.load_file, lines 351-368, loaded being what the canvas's
\* load left: after a load that raised the shell reports the error; else the
\* keypoints are read from the file's sidecar and handed to the canvas.
load_file_after(loaded, fs, f) ==
    IF loaded.raised
    THEN [w |-> loaded.w, s |-> [loaded.s EXCEPT !.report = "critical"]]
    ELSE [w |-> load_file(loaded.w, f.size, load_keypoints(fs, f.json_path)),
          s |-> [loaded.s EXCEPT !.current_file = f.name]]

\* KeypointLabeler.load_file(file_path)
app_load_file(w, s, fs, f) == load_file_after(canvas_load(w, s, f), fs, f)

\* KeypointLabeler.save_current, lines 425-432, saved being what
\* JSONIO.save_keypoints left: its return value is not looked at; only a call
\* that raised is reported as an error, in a modal dialog (critical).
save_current_after(s, saved) ==
    [s |-> [s EXCEPT !.report = IF saved.io.result = "raised" THEN "critical"
                                ELSE "saved"],
     fs |-> saved.fs, io |-> saved.io, critical |-> saved.io.result = "raised"]

\* KeypointLabeler.save_current(): sidecar is the current file's path with the
\* suffix .json; c is the JSONIO call made last.
save_current(w, s, fs, c, sidecar, faults) ==
    IF s.current_file = "None" THEN [s |-> s, fs |-> fs, io |-> c, critical |-> FALSE]
    ELSE save_current_after(s, save_keypoints(fs, sidecar, w.app_keypoints, << >>, faults))

\* KeypointLabeler.save_current_if_needed()
save_current_if_needed(w, s, fs, c, sidecar, faults) ==
    IF s.auto_save /\ s.current_file # "None" /\ w.app_keypoints # << >>
    THEN save_current(w, s, fs, c, sidecar, faults)
    ELSE [s |-> s, fs |-> fs, io |-> c, critical |-> FALSE]

\* KeypointLabeler.set_auto_save(enabled), the slot of the auto-save check box.
set_auto_save(s, enabled) == [s EXCEPT !.auto_save = enabled]

\* KeypointLabeler.next_file / prev_file, lines 404-406 and 411-413, saved
\* being what save_current_if_needed left: the index moves and the file f at
\* the new index is loaded.
file_at(w, saved, index, f) ==
    [w |-> app_load_file(w, [saved.s EXCEPT !.current_index = index], saved.fs, f).w,
     s |-> app_load_file(w, [saved.s EXCEPT !.current_index = index], saved.fs, f).s,
     fs |-> saved.fs, io |-> saved.io]


(***************************************************************************)
(* History variables                                                       *)
(***************************************************************************)
\* What h_pre and h_press hold: a sequence and a selection.
Snapshot(w) == [keypoints |-> w.keypoints, selected_point |-> w.selected_point]

NoPress == [keypoints |-> << >>, selected_point |-> -1]

\* h_pre after a handler that took the state to w.  It is kept as a stack that
\* never evicts: a record popped pops it, a clearing of the stack empties it, and
\* a record pushed (whether or not the stack evicted one) adds pre, the state
\* before the edit recorded.
PreAfter(w, pre) ==
    IF w.undo_stack = undo_stack THEN h_pre
    ELSE IF Len(w.undo_stack) = Len(undo_stack) - 1
         THEN SubSeq(h_pre, 1, Len(h_pre) - 1)
    ELSE IF w.undo_stack = << >> THEN << >>
    ELSE Append(h_pre, pre)

\* The history kept for every handler: name is the handler, w the state it
\* leaves, pre the state before the edit it records (if it records one),
\* button whether the primary button is held afterwards.
History(name, w, pre, button) ==
    /\ left_button' = button
    /\ h_event' = name
    /\ h_pre' = PreAfter(w, pre)
    /\ h_base' = h_base

\* The count of recorded edits is kept by the eviction specification only.
NoCount == UNCHANGED h_run

\* The handler's input is not kept.
NoInput == h_input' = << >>

\* The files and the session's other fields are not followed: no file, no
\* JSONIO call, and the session's other fields as the constructors leave them.
NoSession == files = no_files /\ io = io_idle /\ session = new_session

\* The handler touches neither the files nor the session's other fields.
NoDisk == UNCHANGED <<files, io, session>>

(***************************************************************************)
(* The canvas on its own: its events, with the signals unconnected         *)
(***************************************************************************)
\* ImageCanvas.__init__, with no shell connected to the canvas's signals.
new_canvas ==
    [pixmap |-> None, keypoints |-> << >>, selected_point |-> -1,
     last_added_point |-> -1, undo_stack |-> << >>, dragging |-> FALSE,
     drag_start_position |-> None, mouse_mode |-> "select", zoom_factor |-> float_1_0,
     pan_offset |-> <<0, 0>>, last_mouse_pos |-> <<0, 0>>, connected |-> FALSE,
     app_keypoints |-> << >>, shared |-> FALSE, list_count |-> 0, current_row |-> -1,
     list_items |-> << >>, undo_result |-> "None"]

\* The program's state is w.
Holds(w) ==
    /\ pixmap = w.pixmap
    /\ keypoints = w.keypoints
    /\ selected_point = w.selected_point
    /\ last_added_point = w.last_added_point
    /\ undo_stack = w.undo_stack
    /\ dragging = w.dragging
    /\ drag_start_position = w.drag_start_position
    /\ mouse_mode = w.mouse_mode
    /\ zoom_factor = w.zoom_factor
    /\ pan_offset = w.pan_offset
    /\ last_mouse_pos = w.last_mouse_pos
    /\ connected = w.connected
    /\ app_keypoints = w.app_keypoints
    /\ shared = w.shared
    /\ list_count = w.list_count
    /\ list_items = w.list_items
    /\ current_row = w.current_row
    /\ undo_result = w.undo_result

Init ==
    /\ Holds(new_canvas)
    /\ left_button = FALSE
    /\ h_event = "init"
    /\ h_pre = << >>
    /\ h_press = NoPress
    /\ h_base = << >>
    /\ h_run = 0
    /\ h_input = << >>
    /\ NoSession

\* The bounds of the exploration.
InBounds(w) ==
    /\ Len(w.keypoints) <= MaxPoints
    /\ Len(w.undo_stack) <= MaxRecords
    /\ w.zoom_factor \in ZoomLevels
    /\ w.pan_offset \in PanOffsets

\* Between a primary press and its release only pointer moves arrive, and while
\* a modal dialog of the shell is open no event reaches the window.
Idle == ~left_button /\ session.dialog = "None"

\* One handler run: the program's state becomes w, within the bounds.
Step(name, w, pre, button) ==
    /\ InBounds(w) /\ Becomes(w)
    /\ History(name, w, pre, button)
    /\ NoCount /\ NoInput
    /\ NoDisk

LoadImage ==
    \E size \in ImageSizes :
        /\ Idle
        /\ Step("load_image", load_image(Cur, size), Snapshot(Cur), FALSE)
        /\ UNCHANGED h_press

\* The canvas is handed a sequence that some other component owns.
LoadKeypoints(w, kps) ==
    /\ InBounds(w) /\ Becomes(w)
    /\ left_button' = FALSE
    /\ h_event' = IF undo_stack = << >> THEN "set_keypoints" ELSE "set_keypoints_over_edits"
    /\ h_pre' = << >>
    /\ h_base' = kps
    /\ UNCHANGED h_press /\ NoCount /\ NoInput
    /\ NoDisk

SetKeypoints ==
    \E kps \in LoadedSequences :
        Idle /\ LoadKeypoints(set_keypoints(Cur, kps, FALSE), kps)

SelectKeypoint ==
    \E index \in 0..(Len(keypoints) - 1) :
        /\ Idle
        /\ Step("select_keypoint", select_keypoint(Cur, index), Snapshot(Cur), FALSE)
        /\ UNCHANGED h_press

Pressed(w) ==
    /\ Step("primary_press", w, Snapshot(Cur), TRUE)
    /\ h_press' = Snapshot(w)

PrimaryPress ==
    \E pos \in ScreenPoints, alt \in BOOLEAN :
        Idle /\ Pressed(mousePressEvent(Cur, pos, "left", alt))

\* Pointer motion with the primary button held.
PointerMove ==
    \E pos \in ScreenPoints :
        /\ left_button
        /\ Step("pointer_move", mouseMoveEvent(Cur, pos, TRUE), Snapshot(Cur), TRUE)
        /\ UNCHANGED h_press

PrimaryRelease ==
    /\ left_button
    /\ Step("primary_release", mouseReleaseEvent(Cur), h_press, FALSE)
    /\ h_press' = NoPress

SecondaryPress ==
    \E pos \in ScreenPoints :
        /\ Idle
        /\ Step("secondary_press", mousePressEvent(Cur, pos, "right", FALSE),
                Snapshot(Cur), FALSE)
        /\ UNCHANGED h_press

SecondaryRelease ==
    /\ Idle
    /\ Step("secondary_release", mouseReleaseEvent(Cur), Snapshot(Cur), FALSE)
    /\ UNCHANGED h_press

KeyArrow ==
    \E k \in ArrowKeys :
        /\ Idle
        /\ Step("key_arrow", keyPressEvent(Cur, k[1], FALSE, k[2]), Snapshot(Cur), FALSE)
        /\ UNCHANGED h_press

KeyDelete ==
    /\ Idle
    /\ Step("key_delete", keyPressEvent(Cur, "Delete", FALSE, FALSE), Snapshot(Cur), FALSE)
    /\ UNCHANGED h_press

KeyUndo ==
    /\ Idle
    /\ Step(IF undo_stack = << >> THEN "undo_empty" ELSE "undo",
            keyPressEvent(Cur, "Z", TRUE, FALSE), Snapshot(Cur), FALSE)
    /\ UNCHANGED h_press

\* Ctrl with +, - or 0: zoom in, zoom out, reset of the view.
KeyView ==
    \E key \in {"Plus", "Minus", "0"} :
        /\ Idle
        /\ Step("key_view", keyPressEvent(Cur, key, TRUE, FALSE), Snapshot(Cur), FALSE)
        /\ UNCHANGED h_press

\* The space bar pressed or released.
KeySpace ==
    \E down \in BOOLEAN :
        /\ Idle
        /\ Step("key_space",
                IF down THEN keyPressEvent(Cur, "Space", FALSE, FALSE)
                ELSE keyReleaseEvent(Cur, "Space"),
                Snapshot(Cur), FALSE)
        /\ UNCHANGED h_press

Next ==
    \/ LoadImage
    \/ SetKeypoints
    \/ SelectKeypoint
    \/ PrimaryPress
    \/ PointerMove
    \/ PrimaryRelease
    \/ SecondaryPress
    \/ SecondaryRelease
    \/ KeyArrow
    \/ KeyDelete
    \/ KeyUndo

Spec == Init /\ [][Next]_vars

(***************************************************************************)
(* The assembled application: the shell's slots are connected to the       *)
(* canvas's signals and a file has been loaded; points are clicked on the  *)
(* canvas and edited through the shell's list and buttons.                 *)
(***************************************************************************)
new_app == [new_canvas EXCEPT !.connected = TRUE]

InitApp ==
    \E size \in ImageSizes, kps \in LoadedSequences \cup {<< >>} :
        /\ Holds(load_file(new_app, size, kps))
        /\ left_button = FALSE
        /\ h_event = "load_file"
        /\ h_pre = << >>
        /\ h_press = NoPress
        /\ h_base = kps
        /\ h_run = 0
        /\ h_input = << >>
        /\ NoSession

ListRowClicked ==
    \E row \in 0..(list_count - 1) :
        /\ Idle
        /\ Step("list_row_clicked", list_row_clicked(Cur, row), Snapshot(Cur), FALSE)
        /\ UNCHANGED h_press

ListRowDragged ==
    \E row \in 0..(list_count - 1) :
        /\ Idle
        /\ current_row >= 0
        /\ row /= current_row
        /\ Step("list_row_dragged", list_row_dragged(Cur, row), Snapshot(Cur), FALSE)
        /\ UNCHANGED h_press

AppDelete ==
    /\ Idle
    /\ Step("app_delete", app_delete_selected_point(Cur), Snapshot(Cur), FALSE)
    /\ UNCHANGED h_press

AppClear ==
    /\ Idle
    /\ Step("app_clear", clear_all_keypoints(Cur), Snapshot(Cur), FALSE)
    /\ UNCHANGED h_press

\* The list selects one row at a time (QListWidget's default selection mode):
\* the selected rows are the current row, or none.
AppSwap ==
    /\ Idle
    /\ Step("app_swap",
            swap_selected_points(Cur, IF current_row >= 0 THEN <<current_row>> ELSE << >>),
            Snapshot(Cur), FALSE)
    /\ UNCHANGED h_press

AppAddManual ==
    /\ Idle
    /\ Step("app_add", add_keypoint_manual(Cur), Snapshot(Cur), FALSE)
    /\ UNCHANGED h_press

NextApp ==
    \/ ListRowClicked
    \/ ListRowDragged
    \/ AppDelete
    \/ AppClear
    \/ AppSwap
    \/ AppAddManual
    \/ PrimaryPress
    \/ PrimaryRelease
    \/ KeyDelete
    \/ KeyUndo

SpecApp == InitApp /\ [][NextApp]_vars

(***************************************************************************)
(* The assembled application under moves: rows of the list are clicked,    *)
(* the selected point is nudged with the arrow keys (point_moved runs      *)
(* move_keypoint, which refreshes the list), and edits are undone.         *)
(***************************************************************************)
NextListMove ==
    \/ ListRowClicked
    \/ KeyArrow
    \/ KeyUndo

SpecListMove == InitApp /\ [][NextListMove]_vars

(***************************************************************************)
(* The canvas under gestures only: an image and its keypoints have been    *)
(* loaded, the undo stack is empty, and only pointer and key gestures      *)
(* arrive (no load, no call from the shell).                               *)
(***************************************************************************)
InitGestures ==
    \E size \in ImageSizes, kps \in LoadedSequences :
        /\ Holds(set_keypoints(load_image(new_canvas, size), kps, FALSE))
        /\ left_button = FALSE
        /\ h_event = "set_keypoints"
        /\ h_pre = << >>
        /\ h_press = NoPress
        /\ h_base = kps
        /\ h_run = 0
        /\ h_input = << >>
        /\ NoSession

NextGestures ==
    \/ PrimaryPress
    \/ PointerMove
    \/ PrimaryRelease
    \/ SecondaryPress
    \/ SecondaryRelease
    \/ KeyArrow
    \/ KeyDelete
    \/ KeyUndo

SpecGestures == InitGestures /\ [][NextGestures]_vars

(***************************************************************************)
(* The canvas under clicks with the view changing: an image and its        *)
(* keypoints have been loaded and the view panned; points are clicked and  *)
(* deleted, edits undone and the zoom changed.                             *)
(***************************************************************************)
InitView ==
    \E size \in ImageSizes, kps \in LoadedSequences, pan \in PanOffsets :
        /\ Holds([set_keypoints(load_image(new_canvas, size), kps, FALSE)
                    EXCEPT !.pan_offset = pan])
        /\ left_button = FALSE
        /\ h_event = "set_keypoints"
        /\ h_pre = << >>
        /\ h_press = NoPress
        /\ h_base = kps
        /\ h_run = 0
        /\ h_input = << >>
        /\ NoSession

NextView ==
    \/ PrimaryPress
    \/ PrimaryRelease
    \/ KeyDelete
    \/ KeyUndo
    \/ KeyView

SpecView == InitView /\ [][NextView]_vars

(***************************************************************************)
(* Deletions from any position: the canvas holds three points, with any    *)
(* selection and any most-recently-added index, as its fields allow; the   *)
(* Delete key and the secondary button delete, and undo() restores.        *)
(***************************************************************************)
InitDelete ==
    \E size \in ImageSizes, kps \in DeleteSequences :
        \E sel \in -1..(Len(kps) - 1), added \in -1..(Len(kps) - 1) :
            /\ Holds([select_keypoint(
                          set_keypoints(load_image(new_canvas, size), kps, FALSE), sel)
                        EXCEPT !.last_added_point = added])
            /\ left_button = FALSE
            /\ h_event = "select_keypoint"
            /\ h_pre = << >>
            /\ h_press = NoPress
            /\ h_base = kps
            /\ h_run = 0
            /\ h_input = << >>
            /\ NoSession

NextDelete ==
    \/ KeyDelete
    \/ SecondaryPress
    \/ SecondaryRelease
    \/ SelectKeypoint
    \/ KeyUndo

SpecDelete == InitDelete /\ [][NextDelete]_vars

(***************************************************************************)
(* The secondary button in every gesture state: as under gestures only,    *)
(* and the secondary button is also pressed and released while the primary *)
(* button is held, and the space bar pressed and released.                 *)
(***************************************************************************)
SecondaryPressHeld ==
    \E pos \in ScreenPoints :
        /\ left_button
        /\ Step("secondary_press_held", mousePressEvent(Cur, pos, "right", FALSE),
                Snapshot(Cur), TRUE)
        /\ UNCHANGED h_press

SecondaryReleaseHeld ==
    /\ left_button
    /\ Step("secondary_release_held", mouseReleaseEvent(Cur), h_press, TRUE)
    /\ UNCHANGED h_press

NextQuick ==
    \/ PrimaryPress
    \/ PointerMove
    \/ PrimaryRelease
    \/ SecondaryPress
    \/ SecondaryRelease
    \/ SecondaryPressHeld
    \/ SecondaryReleaseHeld
    \/ KeyDelete
    \/ KeyUndo
    \/ KeySpace

SpecQuick == InitGestures /\ [][NextQuick]_vars

(***************************************************************************)
(* Arrow keys: keypoints have been loaded; a row of the list selects a     *)
(* point, every arrow key is pressed with and without Shift, the space bar *)
(* is pressed and released, and edits are undone.  The key pressed is kept *)
(* in h_input.                                                             *)
(***************************************************************************)
InitNudge ==
    \E size \in ImageSizes, kps \in NudgeSequences :
        /\ Holds(set_keypoints(load_image(new_canvas, size), kps, FALSE))
        /\ left_button = FALSE
        /\ h_event = "set_keypoints"
        /\ h_pre = << >>
        /\ h_press = NoPress
        /\ h_base = kps
        /\ h_run = 0
        /\ h_input = << >>
        /\ NoSession

\* One handler run with its input kept, within the bounds of this exploration.
Keyed(name, input, w) ==
    /\ Len(w.undo_stack) <= MaxRecords
    /\ Abs(w.pan_offset[1]) <= PanLimit /\ Abs(w.pan_offset[2]) <= PanLimit
    /\ Becomes(w)
    /\ History(name, w, Snapshot(Cur), FALSE)
    /\ h_input' = input
    /\ NoDisk
    /\ UNCHANGED h_press /\ NoCount

NudgeArrow ==
    \E k \in NudgeKeys :
        /\ Idle
        /\ Keyed("key_arrow", k, keyPressEvent(Cur, k[1], FALSE, k[2]))

NudgeSpace ==
    \E down \in BOOLEAN :
        /\ Idle
        /\ Keyed("key_space", << >>,
                 IF down THEN keyPressEvent(Cur, "Space", FALSE, FALSE)
                 ELSE keyReleaseEvent(Cur, "Space"))

NudgeSelect ==
    \E index \in 0..(Len(keypoints) - 1) :
        /\ Idle
        /\ Keyed("select_keypoint", << >>, select_keypoint(Cur, index))

NudgeUndo ==
    /\ Idle
    /\ Keyed(IF undo_stack = << >> THEN "undo_empty" ELSE "undo", << >>,
             keyPressEvent(Cur, "Z", TRUE, FALSE))

NextNudge == NudgeArrow \/ NudgeSpace \/ NudgeSelect \/ NudgeUndo

SpecNudge == InitNudge /\ [][NextNudge]_vars

(***************************************************************************)
(* The searches for the nearest point: keypoints have been loaded, at both *)
(* zoom levels; the primary button is pressed and released, and            *)
(* Tools.find_closest_point is called on the canvas's sequence.  h_input   *)
(* keeps the position pressed, or the target searched from and the value   *)
(* returned.                                                               *)
(***************************************************************************)
InitNearest ==
    \E size \in ImageSizes, kps \in NearestSequences, zoom \in ZoomLevels :
        /\ Holds([set_keypoints(load_image(new_canvas, size), kps, FALSE)
                    EXCEPT !.zoom_factor = zoom])
        /\ left_button = FALSE
        /\ h_event = "set_keypoints"
        /\ h_pre = << >>
        /\ h_press = NoPress
        /\ h_base = kps
        /\ h_run = 0
        /\ h_input = << >>
        /\ NoSession

NearestPress ==
    \E pos \in NearestClicks :
        /\ Idle
        /\ Len(keypoints) < MaxSearched
        /\ Becomes(mousePressEvent(Cur, pos, "left", FALSE))
        /\ History("nearest_press", mousePressEvent(Cur, pos, "left", FALSE),
                   Snapshot(Cur), TRUE)
        /\ h_press' = Snapshot(mousePressEvent(Cur, pos, "left", FALSE))
        /\ h_input' = pos
        /\ NoDisk
        /\ NoCount

NearestRelease ==
    /\ left_button
    /\ Becomes(mouseReleaseEvent(Cur))
    /\ History("primary_release", mouseReleaseEvent(Cur), h_press, FALSE)
    /\ h_press' = NoPress
    /\ NoInput /\ NoCount
    /\ NoDisk

FindClosest ==
    \E target \in NearestTargets :
        /\ Idle
        /\ Becomes(Cur)
        /\ History("find_closest_point", Cur, Snapshot(Cur), FALSE)
        /\ h_input' = <<target, find_closest_point(target, keypoints)>>
        /\ NoDisk
        /\ UNCHANGED h_press /\ NoCount

NextNearest == NearestPress \/ NearestRelease \/ FindClosest

SpecNearest == InitNearest /\ [][NextNearest]_vars

(***************************************************************************)
(* Clicks on the edges of the image: as under gestures only, with the      *)
(* primary button pressed on the edges of the content rectangle.           *)
(***************************************************************************)
EdgePress ==
    \E pos \in EdgeClicks :
        Idle /\ Pressed(mousePressEvent(Cur, pos, "left", FALSE))

NextEdge ==
    \/ EdgePress
    \/ PointerMove
    \/ PrimaryRelease
    \/ KeyArrow
    \/ KeyDelete
    \/ KeyUndo

SpecEdge == InitGestures /\ [][NextEdge]_vars

(***************************************************************************)
(* Drawing: an image and a point inside it have been loaded, the view is   *)
(* zoomed and panned, and the canvas is painted.  h_input keeps the screen *)
(* positions at which the keypoints were drawn.                            *)
(***************************************************************************)
InitRoundTrip ==
    \E size \in RoundTripSizes, zoom \in RoundTripZooms, pan \in PanOffsets :
        \E p \in {q \in RoundTripPoints : q[1] < size[1] /\ q[2] < size[2]} :
            /\ Holds([set_keypoints(load_image(new_canvas, size), <<p>>, FALSE)
                        EXCEPT !.zoom_factor = zoom, !.pan_offset = pan])
            /\ left_button = FALSE
            /\ h_event = "set_keypoints"
            /\ h_pre = << >>
            /\ h_press = NoPress
            /\ h_base = <<p>>
            /\ h_run = 0
            /\ h_input = << >>
            /\ NoSession

PaintEvent ==
    /\ pixmap # None
    /\ Becomes(Cur)
    /\ History("paint", Cur, Snapshot(Cur), left_button)
    /\ h_input' = draw_keypoints(Cur)
    /\ NoDisk
    /\ UNCHANGED h_press /\ NoCount

NextRoundTrip == PaintEvent

SpecRoundTrip == InitRoundTrip /\ [][NextRoundTrip]_vars

(***************************************************************************)
(* The view under the wheel: an image and its keypoints have been loaded;  *)
(* the wheel is turned with Control held at several positions, the zoom    *)
(* keys are pressed, and the view is fitted to the window.  h_input keeps  *)
(* the position of the pointer and the direction of the wheel.             *)
(***************************************************************************)
InitWheel ==
    \E size \in ImageSizes, kps \in LoadedSequences, zoom \in WheelStartZooms :
        /\ Holds([set_keypoints(load_image(new_canvas, size), kps, FALSE)
                    EXCEPT !.zoom_factor = zoom])
        /\ left_button = FALSE
        /\ h_event = "set_keypoints"
        /\ h_pre = << >>
        /\ h_press = NoPress
        /\ h_base = kps
        /\ h_run = 0
        /\ h_input = << >>
        /\ NoSession

\* One handler run that changes the view, within the bound of this exploration;
\* h_run counts the events.
Viewed(name, input, w) ==
    /\ h_run < MaxTurns
    /\ h_run' = h_run + 1
    /\ Becomes(w)
    /\ History(name, w, Snapshot(Cur), FALSE)
    /\ h_input' = input
    /\ NoDisk
    /\ UNCHANGED h_press

Wheel ==
    \E pos \in WheelPoints, up \in BOOLEAN :
        /\ Idle
        /\ Viewed("wheel", <<pos, up>>, wheelEvent(Cur, pos, up, TRUE))

WheelKey ==
    \E key \in {"Plus", "Minus", "0"} :
        /\ Idle
        /\ Viewed("key_view", << >>, keyPressEvent(Cur, key, TRUE, FALSE))

FitToWindow ==
    /\ Idle
    /\ Viewed("fit_to_window", << >>, fit_to_window(Cur))

NextWheel == Wheel \/ WheelKey \/ FitToWindow

SpecWheel == InitWheel /\ [][NextWheel]_vars

(***************************************************************************)
(* Files opened one after another: in the assembled application a file has *)
(* been loaded and the view panned; the view is zoomed with the keys,      *)
(* reset and fitted to the window, rows of the list and points of the      *)
(* image are clicked, and another file is loaded.                          *)
(***************************************************************************)
InitLoad ==
    \E size \in ImageSizes, kps \in LoadedSequences \cup {<< >>}, pan \in PanOffsets :
        /\ Holds([load_file(new_app, size, kps) EXCEPT !.pan_offset = pan])
        /\ left_button = FALSE
        /\ h_event = "pan"
        /\ h_pre = << >>
        /\ h_press = NoPress
        /\ h_base = kps
        /\ h_run = 0
        /\ h_input = << >>
        /\ NoSession

LoadFile ==
    \E size \in ImageSizes, kps \in LoadedSequences \cup {<< >>} :
        /\ Idle
        /\ InBounds(load_file(Cur, size, kps)) /\ Becomes(load_file(Cur, size, kps))
        /\ left_button' = FALSE
        /\ h_event' = "load_file"
        /\ h_pre' = << >>
        /\ h_base' = kps
        /\ UNCHANGED h_press /\ NoCount /\ NoInput
        /\ NoDisk

ResetView ==
    /\ Idle
    /\ Step("reset_view", reset_view(Cur), Snapshot(Cur), FALSE)
    /\ UNCHANGED h_press

NextLoad ==
    \/ LoadFile
    \/ ResetView
    \/ FitToWindow
    \/ KeyView
    \/ ListRowClicked
    \/ PrimaryPress
    \/ PrimaryRelease

SpecLoad == InitLoad /\ [][NextLoad]_vars

(***************************************************************************)
(* The sidecar file on its own: keypoints and extra fields are saved by    *)
(* JSONIO.save_keypoints and JSONIO.save_with_metadata, every file-system  *)
(* call succeeding, and read back by load_with_metadata and                *)
(* load_keypoints.  h_input keeps what the load returned; io keeps the     *)
(* arguments of the save.                                                  *)
(***************************************************************************)
\* The sidecar file of the model.
json_path == "a.json"

SidecarPaths == {json_path, json_path \o ".bak", json_path \o ".tmp"}

\* Every file-system call succeeds.
no_faults == [pc \in {"backup", "convert", "write", "remove", "rename", "except"} |-> "ok"]

\* The variables of the canvas and of the shell's list, and their history.
editor_vars ==
    <<pixmap, keypoints, selected_point, last_added_point, undo_stack, dragging,
      drag_start_position, mouse_mode, zoom_factor, pan_offset, last_mouse_pos,
      left_button, connected, app_keypoints, shared, list_count, list_items,
      current_row, undo_result, h_pre, h_press, h_base, h_run>>

\* A JSONIO call made from outside the editor: the files become fs, the call c.
FileStep(name, input, fs, c) ==
    /\ files' = fs
    /\ io' = c
    /\ h_event' = name
    /\ h_input' = input
    /\ UNCHANGED <<editor_vars, session>>

\* Sequences saved to the sidecar file: none, two pairs in both orders, and
\* a negative coordinate with a pair twice.
SavedSequences ==
    {<< >>, << <<10, 20>>, <<30, 5>> >>, << <<30, 5>>, <<10, 20>> >>,
     << <<-1, 0>>, <<7, 7>>, <<7, 7>> >>}
\* Extra top-level fields saved with them, as a dict's members: none, a string,
\* a number and a string, a list and an object.
ExtraFields ==
    {<< >>,
     << <<"note", <<"str", "x">> >> >>,
     << <<"count", <<"num", 3>> >>, <<"note", <<"str", "x">> >> >>,
     << <<"tags", <<"arr", << <<"str", "a">>, <<"num", 1>> >> >> >> >>,
     << <<"meta", <<"obj", << <<"coord", <<"arr", << >> >> >> >> >> >> >>}
\* Texts of the sidecar file before anything is saved: no file (<< >>), a
\* document written by an earlier save, and a text cut short.
OldTexts ==
    {<< >>,
     json_dump(<<"obj", << <<"coord", <<"arr", coord_value(<< <<1, 2>> >>)>> >>,
                           <<"old", <<"num", 0>> >> >> >>),
     <<LBrace, <<"s", "coord">>, Colon, White, LBracket>>}

\* The dict handed to save_with_metadata: coord before or after the extra fields.
with_coord(kps, extra, first) ==
    IF first THEN << <<"coord", <<"arr", coord_value(kps)>> >> >> \o extra
    ELSE extra \o << <<"coord", <<"arr", coord_value(kps)>> >> >>

\* A save has run to its end and left m.
Saved(name, m) == FileStep(name, << >>, m.fs, m.io)

InitPersist ==
    \E old \in OldTexts :
        /\ Holds(new_canvas)
        /\ left_button = FALSE
        /\ h_event = "init"
        /\ h_pre = << >>
        /\ h_press = NoPress
        /\ h_base = << >>
        /\ h_run = 0
        /\ h_input = << >>
        /\ files = [path \in SidecarPaths |->
                       IF path = json_path /\ old # << >> THEN File(old) ELSE Absent]
        /\ io = io_idle
        /\ session = new_session

SaveKeypoints ==
    \E kps \in SavedSequences, extra \in ExtraFields :
        /\ io.pc \in {"idle", "done"}
        /\ Saved("save_keypoints",
                 save_keypoints(files, json_path, kps, extra, no_faults))

SaveWithMetadata ==
    \E kps \in SavedSequences, extra \in ExtraFields, first \in BOOLEAN :
        /\ io.pc \in {"idle", "done"}
        /\ Saved("save_with_metadata",
                 save_with_metadata(files, json_path, with_coord(kps, extra, first),
                                    no_faults))

LoadWithMetadata ==
    /\ io.pc \in {"idle", "done"}
    /\ FileStep("load_with_metadata", load_with_metadata(files, json_path), files, io)

LoadKeypointsOfFile ==
    /\ io.pc \in {"idle", "done"}
    /\ FileStep("load_keypoints", load_keypoints(files, json_path), files, io)

NextPersist == SaveKeypoints \/ SaveWithMetadata \/ LoadWithMetadata \/ LoadKeypointsOfFile

SpecPersist == InitPersist /\ [][NextPersist]_vars

(***************************************************************************)
(* Damaged sidecar files: the file is missing, whole, written by hand and  *)
(* cut short, or written by a save and then cut short at any length; its   *)
(* backup is present or not; load_keypoints and load_with_metadata read    *)
(* it.  h_input keeps what the load returned.                              *)
(***************************************************************************)
\* Texts of the sidecar file at the start: no file (<< >>), a whole document,
\* {"coord": [[10, 20], [30, 5]], "note":  cut short after the colon, a text
\* with an empty coord array and a text without coord.
DamagedTexts ==
    {<< >>,
     json_dump(<<"obj", << <<"coord", <<"arr", coord_value(<< <<10, 20>>, <<30, 5>> >>)>> >>,
                           <<"note", <<"str", "x">> >> >> >>),
     <<LBrace, <<"s", "coord">>, Colon, White, LBracket,
       LBracket, <<"n", 10>>, Comma, White, <<"n", 20>>, RBracket, Comma, White,
       LBracket, <<"n", 30>>, Comma, White, <<"n", 5>>, RBracket, RBracket, Comma, White,
       <<"s", "note">>, Colon, White>>,
     <<LBrace, <<"s", "coord">>, Colon, White, LBracket, RBracket, Comma, White,
       <<"s", "x">> >>,
     <<LBrace, <<"s", "note">>, Colon>>}
\* Texts of the backup at the start: none, or a document with one pair.
BackupTexts ==
    {<< >>, json_dump(<<"obj", << <<"coord", <<"arr", coord_value(<< <<1, 2>> >>)>> >> >> >>)}

InitRecover ==
    \E text \in DamagedTexts, backup \in BackupTexts :
        /\ Holds(new_canvas)
        /\ left_button = FALSE
        /\ h_event = "init"
        /\ h_pre = << >>
        /\ h_press = NoPress
        /\ h_base = << >>
        /\ h_run = 0
        /\ h_input = << >>
        /\ files = [path \in SidecarPaths |->
                       IF path = json_path /\ text # << >> THEN File(text)
                       ELSE IF path = json_path \o ".bak" /\ backup # << >> THEN File(backup)
                       ELSE Absent]
        /\ io = io_idle
        /\ session = new_session

\* The sidecar file is cut short: its first n tokens are left.
CutShort ==
    \E n \in 0..(Len(files[json_path].text) - 1) :
        /\ files[json_path].exists
        /\ FileStep("cut_short", << >>,
                    [files EXCEPT ![json_path] = File(SubSeq(files[json_path].text, 1, n))],
                    io)

\* The backup is deleted.
DropBackup ==
    /\ files[json_path \o ".bak"].exists
    /\ FileStep("drop_backup", << >>, [files EXCEPT ![json_path \o ".bak"] = Absent], io)

NextRecover == CutShort \/ DropBackup \/ LoadKeypointsOfFile \/ LoadWithMetadata

SpecRecover == InitRecover /\ [][NextRecover]_vars

(***************************************************************************)
(* One save, step by step: JSONIO.save_keypoints is called on the sidecar  *)
(* file and makes its file-system calls one at a time; each call succeeds, *)
(* fails or is torn, and the process can stop between any two of them.     *)
(* h_input keeps the files as they were when the call was entered and what *)
(* each step met; h_run counts the calls.                                  *)
(***************************************************************************)
\* The calls of save_keypoints explored.
MaxSaves == 2
\* The lists handed to save_keypoints: one pair, two pairs, and a list whose
\* element is not a pair.
SaveInputs == {<< <<8, 8>> >>, << <<8, 8>>, <<40, 8>> >>, << <<1, 2, 3>> >>}
\* The sidecar file and its backup before the first call: none (<< >>) or a
\* document written earlier.
EarlierTexts ==
    {<< >>,
     json_dump(<<"obj", << <<"coord", <<"arr", coord_value(<< <<5, 5>> >>)>> >>,
                           <<"note", <<"str", "x">> >> >> >>)}
EarlierBackups ==
    {<< >>, json_dump(<<"obj", << <<"coord", <<"arr", << >> >> >> >> >>)}

InitSave ==
    \E old \in EarlierTexts, older \in EarlierBackups :
        /\ Holds(new_canvas)
        /\ left_button = FALSE
        /\ h_event = "init"
        /\ h_pre = << >>
        /\ h_press = NoPress
        /\ h_base = << >>
        /\ h_run = 0
        /\ h_input = [before |-> no_files, met |-> << >>]
        /\ files = [path \in SidecarPaths |->
                       IF path = json_path /\ old # << >> THEN File(old)
                       ELSE IF path = json_path \o ".bak" /\ older # << >> THEN File(older)
                       ELSE Absent]
        /\ io = io_idle
        /\ session = new_session

\* The call is in one of its steps.
Saving == io.pc \in {"backup", "convert", "write", "remove", "rename", "except"}

\* A step of the call has met fault.
SaveStepped(name, fault, m) ==
    FileStep(name, [h_input EXCEPT !.met = Append(@, <<io.pc, fault>>)], m.fs, m.io)

\* save_keypoints is called.
SaveEnter ==
    \E kps \in SaveInputs :
        /\ io.pc \in {"idle", "done"}
        /\ h_run < MaxSaves
        /\ h_run' = h_run + 1
        /\ files' = files
        /\ io' = save_entered(json_path, kps, << >>)
        /\ h_event' = "save_enter"
        /\ h_input' = [before |-> files, met |-> << >>]
        /\ UNCHANGED <<pixmap, keypoints, selected_point, last_added_point, undo_stack,
                       dragging, drag_start_position, mouse_mode, zoom_factor, pan_offset,
                       last_mouse_pos, left_button, connected, app_keypoints, shared,
                       list_count, list_items, current_row, undo_result, h_pre,
                       h_press, h_base,
                       session>>

\* The step's file-system call succeeds (or the step makes none).
SaveStepOk ==
    /\ Saving
    /\ SaveStepped("save_step", "ok", save_step(files, io, "ok"))

\* The step's file-system call fails and leaves the files as they were.
SaveStepFails ==
    /\ Saving /\ can_fail(files, io)
    /\ SaveStepped("save_step_fails", "fails", save_step(files, io, "fails"))

\* The step's copy or write fails halfway.
SaveStepTorn ==
    /\ Saving /\ can_tear(files, io)
    /\ SaveStepped("save_step_torn", "torn", save_step(files, io, "torn"))

\* The process stops between two steps of the call.
Crash ==
    /\ Saving
    /\ FileStep("crash", h_input, files, [io EXCEPT !.pc = "crashed"])

NextSave == SaveEnter \/ SaveStepOk \/ SaveStepFails \/ SaveStepTorn \/ Crash

SpecSave == InitSave /\ [][NextSave]_vars

(***************************************************************************)
(* An editing session: a folder of images is opened in the assembled       *)
(* application, its files are stepped through (with auto-save),            *)
(* points are clicked and deleted, and the current file is saved, the      *)
(* file-system calls of a save succeeding or failing.  h_run counts the    *)
(* saves.                                                                  *)
(***************************************************************************)
\* The images of the folder, in its order: an image and a DICOM file, with
\* their sidecar files' paths, and an image that cannot be decoded.
FolderFiles ==
    <<[name |-> "a.png", suffix |-> ".png", size |-> <<512, 256>>, fails |-> "none",
       json_path |-> "a.json"],
      [name |-> "b.dcm", suffix |-> ".dcm", size |-> <<512, 256>>, fails |-> "none",
       json_path |-> "b.json"],
      [name |-> "c.png", suffix |-> ".png", size |-> <<512, 256>>, fails |-> "decode",
       json_path |-> "c.json"]>>
\* Files that cannot be loaded: an image and a DICOM file that cannot be
\* decoded, a DICOM file whose preprocessing raises and one whose array cannot
\* be converted to a pixmap (several frames).
BrokenFiles ==
    {[name |-> "c.png", suffix |-> ".png", size |-> <<512, 256>>, fails |-> "decode",
      json_path |-> "c.json"],
     [name |-> "d.dcm", suffix |-> ".dcm", size |-> <<512, 256>>, fails |-> "decode",
      json_path |-> "d.json"],
     [name |-> "e.dcm", suffix |-> ".dcm", size |-> <<512, 256>>, fails |-> "get_image",
      json_path |-> "e.json"],
     [name |-> "f.dcm", suffix |-> ".dcm", size |-> <<512, 256>>, fails |-> "display",
      json_path |-> "f.json"]}
\* The sidecar files when the session starts: a.json holds one point and two
\* fields the application does not know; b.dcm has no sidecar file.
SessionFiles ==
    [path \in {"a.json", "a.json.bak", "a.json.tmp", "b.json", "b.json.bak", "b.json.tmp"}
        |-> IF path = "a.json"
            THEN File(json_dump(<<"obj", << <<"coord", <<"arr", coord_value(<< <<8, 8>> >>)>> >>,
                                           <<"note", <<"str", "x">> >>,
                                           <<"reviewed", <<"num", 1>> >> >> >>))
            ELSE Absent]
\* What the file-system calls of one save meet: all succeed, the write or the
\* rename fails, or the write is torn and the temporary file cannot be removed.
FaultCases ==
    {no_faults,
     [no_faults EXCEPT !["write"] = "fails"],
     [no_faults EXCEPT !["rename"] = "fails"],
     [no_faults EXCEPT !["write"] = "torn", !["except"] = "fails"]}

\* Path(self.current_file).with_suffix('.json'): the current file is one of
\* the folder's, the only files that load.
sidecar_of(name) ==
    IF \E i \in 1..Len(FolderFiles) : FolderFiles[i].name = name
    THEN FolderFiles[CHOOSE i \in 1..Len(FolderFiles) : FolderFiles[i].name = name].json_path
    ELSE "None"

\* One handler of the shell has run: the editor becomes m.w, the session m.s,
\* the files m.fs and the JSONIO call m.io.
SessionStep(name, input, m, saves) ==
    /\ InBounds(m.w) /\ Becomes(m.w)
    /\ session' = m.s
    /\ files' = m.fs
    /\ io' = m.io
    /\ left_button' = FALSE
    /\ h_event' = name
    /\ h_input' = input
    /\ h_pre' = PreAfter(m.w, Snapshot(Cur))
    /\ h_base' = IF m.s.current_file = session.current_file /\ name # "load_file"
                 THEN h_base ELSE m.w.keypoints
    /\ h_run' = saves
    /\ UNCHANGED h_press

InitSession ==
    /\ Holds(new_app)
    /\ left_button = FALSE
    /\ h_event = "init"
    /\ h_pre = << >>
    /\ h_press = NoPress
    /\ h_base = << >>
    /\ h_run = 0
    /\ h_input = << >>
    /\ files = SessionFiles
    /\ io = io_idle
    /\ session = new_session

\* KeypointLabeler.load_folder: the first file of the folder is loaded.
LoadFolder ==
    /\ Idle
    /\ session.current_index = -1
    /\ SessionStep("load_file", <<FolderFiles[1].name, FALSE>>,
                   file_at(Cur, [s |-> session, fs |-> files, io |-> io], 0, FolderFiles[1]),
                   h_run)

\* KeypointLabeler.open_file: the file chosen is loaded; h_input keeps its name
\* and whether the canvas's load raised.
OpenFile ==
    \E f \in {FolderFiles[i] : i \in 1..Len(FolderFiles)} \cup BrokenFiles :
        /\ Idle
        /\ SessionStep("load_file", <<f.name, canvas_load(Cur, session, f).raised>>,
                       file_at(Cur, [s |-> session, fs |-> files, io |-> io],
                               session.current_index, f),
                       h_run)

\* KeypointLabeler.next_file / prev_file, lines 404 and 411, saved being what
\* save_current_if_needed left.  When the save raised, save_current has opened
\* the modal error dialog (lines 430-431): the handler waits there, with the
\* index and the file shown as they were, until the dialog is dismissed.
after_auto_save(w, saved, handler, index, f) ==
    IF saved.critical
    THEN [w |-> w, s |-> [saved.s EXCEPT !.dialog = handler],
          fs |-> saved.fs, io |-> saved.io]
    ELSE file_at(w, saved, index, f)

\* KeypointLabeler.next_file: auto-save, then the next file of the folder.
NextFile ==
    \E faults \in FaultCases :
        /\ Idle
        /\ session.current_index >= 0 /\ session.current_index < Len(FolderFiles) - 1
        /\ h_run < MaxSaves
        /\ LET saved == save_current_if_needed(Cur, session, files, io,
                             sidecar_of(session.current_file), faults)
           IN  SessionStep(IF saved.critical THEN "save_dialog" ELSE "next_file", << >>,
                           after_auto_save(Cur, saved, "next_file",
                               session.current_index + 1,
                               FolderFiles[session.current_index + 2]),
                           h_run + 1)

\* KeypointLabeler.prev_file: auto-save, then the previous file of the folder.
PrevFile ==
    \E faults \in FaultCases :
        /\ Idle
        /\ session.current_index > 0
        /\ h_run < MaxSaves
        /\ LET saved == save_current_if_needed(Cur, session, files, io,
                             sidecar_of(session.current_file), faults)
           IN  SessionStep(IF saved.critical THEN "save_dialog" ELSE "prev_file", << >>,
                           after_auto_save(Cur, saved, "prev_file",
                               session.current_index - 1,
                               FolderFiles[session.current_index]),
                           h_run + 1)

\* The error dialog opened under next_file or prev_file is dismissed: the
\* handler goes on (lines 405-406, 412-413), the index moves and the file at
\* the new index is loaded.
DialogDismissed ==
    /\ ~left_button
    /\ session.dialog \in {"next_file", "prev_file"}
    /\ LET index == IF session.dialog = "next_file" THEN session.current_index + 1
                    ELSE session.current_index - 1
           resumed == [s |-> [session EXCEPT !.dialog = "None"], fs |-> files, io |-> io]
       IN  SessionStep(session.dialog, << >>,
                       file_at(Cur, resumed, index, FolderFiles[index + 1]), h_run)

\* The auto-save check box is toggled.
SetAutoSave ==
    \E enabled \in BOOLEAN :
        /\ Idle
        /\ enabled # session.auto_save
        /\ SessionStep("set_auto_save", << >>,
                       [w |-> Cur, s |-> set_auto_save(session, enabled),
                        fs |-> files, io |-> io],
                       h_run)

\* The editor is left as it is by a handler that saves.
kept(w, saved) == [w |-> w, s |-> saved.s, fs |-> saved.fs, io |-> saved.io]

\* KeypointLabeler.save_current, from the menu or the toolbar.
SaveCurrent ==
    \E faults \in FaultCases :
        /\ Idle
        /\ h_run < MaxSaves
        /\ SessionStep("save_current", << >>,
                       kept(Cur, save_current(Cur, session, files, io,
                                              sidecar_of(session.current_file), faults)),
                       h_run + 1)

\* KeypointLabeler.save_all, lines 440-449: the files of the folder from the
\* i-th on, c being the JSONIO call made last and count the value of
\* saved_count.  A sidecar file that exists is read with load_keypoints and
\* written again with save_keypoints, whose return value is not looked at; a
\* call that raises is logged and not counted.
RECURSIVE save_all_from(_, _, _, _, _)
save_all_counted(saved, count, i, faults) ==
    save_all_from(saved.fs, saved.io,
                  IF saved.io.result = "raised" THEN count ELSE count + 1, i, faults)

save_all_from(fs, c, count, i, faults) ==
    IF i > Len(FolderFiles) THEN [fs |-> fs, io |-> c, count |-> count]
    ELSE IF path_exists(fs, FolderFiles[i].json_path)
         THEN save_all_counted(
                  save_keypoints(fs, FolderFiles[i].json_path,
                                 load_keypoints(fs, FolderFiles[i].json_path), << >>,
                                 faults[i]),
                  count, i + 1, faults)
    ELSE save_all_from(fs, c, count, i + 1, faults)

\* KeypointLabeler.save_all(), a folder being loaded: every sidecar file is
\* rewritten and the status bar shows the count.
save_all_after(s, done) ==
    [s |-> [s EXCEPT !.report = "saved_all"], fs |-> done.fs, io |-> done.io,
     count |-> done.count]

save_all(s, fs, c, faults) == save_all_after(s, save_all_from(fs, c, 0, 1, faults))

\* save_all has run and left `done`; h_input keeps the count shown.
SavedAll(done) == SessionStep("save_all", <<done.count>>, kept(Cur, done), h_run + 1)

\* KeypointLabeler.save_all, from the menu, with a folder loaded (without one
\* it returns at once, line 436).  A fault is chosen for every sidecar file
\* that exists; the others are not written.
SaveAll ==
    \E faults \in [{i \in 1..Len(FolderFiles) : path_exists(files, FolderFiles[i].json_path)}
                       -> FaultCases] :
        /\ Idle
        /\ session.current_index >= 0
        /\ h_run < MaxSaves
        /\ SavedAll(save_all(session, files, io, faults))

NextSession ==
    \/ LoadFolder
    \/ NextFile
    \/ PrevFile
    \/ DialogDismissed
    \/ SetAutoSave
    \/ SaveCurrent
    \/ SaveAll
    \/ PrimaryPress
    \/ PrimaryRelease
    \/ ListRowClicked
    \/ AppDelete

SpecSession == InitSession /\ [][NextSession]_vars

(***************************************************************************)
(* Files that cannot be loaded: the folder has been or is being opened,    *)
(* points are clicked and deleted, and single files are opened from the    *)
(* dialog, those of the folder and files whose load raises at one of the   *)
(* steps of ImageCanvas.load_image / load_dicom.                           *)
(***************************************************************************)
NextDecode ==
    \/ LoadFolder
    \/ OpenFile
    \/ PrimaryPress
    \/ PrimaryRelease
    \/ ListRowClicked
    \/ AppDelete

SpecDecode == InitSession /\ [][NextDecode]_vars

(***************************************************************************)
(* Events between a primary press and its release: as under gestures only, *)
(* and Ctrl+Z, Delete, the arrow keys, the secondary button's press and a  *)
(* release of a button other than the primary one also arrive while the    *)
(* primary button is held.                                                 *)
(***************************************************************************)
\* Two keypoints have been loaded over an image; the undo stack is empty.
InitInterleaved ==
    /\ Holds(set_keypoints(load_image(new_canvas, <<512, 256>>),
                           << <<8, 8>>, <<40, 8>> >>, FALSE))
    /\ left_button = FALSE
    /\ h_event = "set_keypoints"
    /\ h_pre = << >>
    /\ h_press = NoPress
    /\ h_base = << <<8, 8>>, <<40, 8>> >>
    /\ h_run = 0
    /\ h_input = << >>
    /\ NoSession

\* A primary press over the image's (8, 8) or (40, 8), without Alt; h_run
\* counts the presses, of which there are at most MaxGestures.
MaxGestures == 2

PressOverPoint ==
    \E pos \in {<<8, 136>>, <<40, 136>>} :
        /\ Idle
        /\ h_run < MaxGestures
        /\ InBounds(mousePressEvent(Cur, pos, "left", FALSE))
        /\ Becomes(mousePressEvent(Cur, pos, "left", FALSE))
        /\ History("primary_press", mousePressEvent(Cur, pos, "left", FALSE),
                   Snapshot(Cur), TRUE)
        /\ h_press' = Snapshot(mousePressEvent(Cur, pos, "left", FALSE))
        /\ h_run' = h_run + 1
        /\ NoInput /\ NoDisk

KeyUndoHeld ==
    /\ left_button
    /\ Step(IF undo_stack = << >> THEN "undo_empty_held" ELSE "undo_held",
            keyPressEvent(Cur, "Z", TRUE, FALSE), Snapshot(Cur), TRUE)
    /\ UNCHANGED h_press

KeyDeleteHeld ==
    /\ left_button
    /\ Step("key_delete_held", keyPressEvent(Cur, "Delete", FALSE, FALSE),
            Snapshot(Cur), TRUE)
    /\ UNCHANGED h_press

KeyArrowHeld ==
    \E k \in ArrowKeys :
        /\ left_button
        /\ Step("key_arrow_held", keyPressEvent(Cur, k[1], FALSE, k[2]),
                Snapshot(Cur), TRUE)
        /\ UNCHANGED h_press

NextInterleaved ==
    \/ PressOverPoint
    \/ PointerMove
    \/ PrimaryRelease
    \/ KeyUndoHeld
    \/ KeyDeleteHeld
    \/ KeyArrowHeld
    \/ SecondaryPressHeld
    \/ SecondaryReleaseHeld

SpecInterleaved == InitInterleaved /\ [][NextInterleaved]_vars

(***************************************************************************)
(* Pan gestures: as under clicks with the view changing, and the primary   *)
(* button is pressed with Alt held and the pointer moved.  During a pan    *)
(* gesture h_input keeps the pointer's position and the canvas's fields    *)
(* before the press, and the pointer's position now.                       *)
(***************************************************************************)
\* What h_input keeps of the canvas w before a press at pos.
AtPress(w, pos) ==
    [pos |-> pos, now |-> pos, pan_offset |-> w.pan_offset, zoom_factor |-> w.zoom_factor,
     keypoints |-> w.keypoints, selected_point |-> w.selected_point,
     undo_stack |-> w.undo_stack]

\* A pan gesture is under way.
Panning == left_button /\ h_event \in {"pan_press", "pan_move"}

\* mousePressEvent with the primary button and the Alt modifier.
PanPress ==
    \E pos \in ScreenPoints :
        /\ Idle
        /\ InBounds(mousePressEvent(Cur, pos, "left", TRUE))
        /\ Becomes(mousePressEvent(Cur, pos, "left", TRUE))
        /\ History("pan_press", mousePressEvent(Cur, pos, "left", TRUE), Snapshot(Cur), TRUE)
        /\ h_press' = Snapshot(mousePressEvent(Cur, pos, "left", TRUE))
        /\ h_input' = AtPress(Cur, pos)
        /\ NoCount /\ NoDisk

\* mouseMoveEvent during the pan gesture.
PanMove ==
    \E pos \in ScreenPoints :
        /\ Panning
        /\ InBounds(mouseMoveEvent(Cur, pos, TRUE))
        /\ Becomes(mouseMoveEvent(Cur, pos, TRUE))
        /\ History("pan_move", mouseMoveEvent(Cur, pos, TRUE), Snapshot(Cur), TRUE)
        /\ h_input' = [h_input EXCEPT !.now = pos]
        /\ UNCHANGED h_press /\ NoCount /\ NoDisk

NextPan ==
    \/ PrimaryPress
    \/ PrimaryRelease
    \/ KeyDelete
    \/ KeyUndo
    \/ KeyView
    \/ PanPress
    \/ PanMove

SpecPan == InitView /\ [][NextPan]_vars

(***************************************************************************)
(* The undo stack at its capacity: keypoints have been loaded and a point  *)
(* selected; the selected point is nudged and the nudges undone, up to     *)
(* MaxExtraPushes edits beyond the capacity of the stack.                  *)
(***************************************************************************)
InitEvict ==
    \E size \in ImageSizes, kps \in LoadedSequences : \E index \in 0..(Len(kps) - 1) :
        /\ Holds(select_keypoint(
                     set_keypoints(load_image(new_canvas, size), kps, FALSE), index))
        /\ left_button = FALSE
        /\ h_event = "select_keypoint"
        /\ h_pre = << >>
        /\ h_press = NoPress
        /\ h_base = kps
        /\ h_run = 0
        /\ h_input = << >>
        /\ NoSession

\* One key handler run, with the count of recorded edits kept.
Counted(name, w, run) ==
    /\ Becomes(w)
    /\ History(name, w, Snapshot(Cur), FALSE)
    /\ h_run' = IF w.undo_stack = undo_stack THEN h_run ELSE run
    /\ NoInput
    /\ NoDisk
    /\ UNCHANGED h_press

NudgeRight ==
    /\ Idle
    /\ Len(h_pre) < max_undo_steps + MaxExtraPushes
    /\ Counted("key_arrow", keyPressEvent(Cur, "Right", FALSE, FALSE), h_run + 1)

UndoNudge ==
    /\ Idle
    /\ Counted(IF undo_stack = << >> THEN "undo_empty" ELSE "undo",
               keyPressEvent(Cur, "Z", TRUE, FALSE), 0)

NextEvict == NudgeRight \/ UndoNudge

SpecEvict == InitEvict /\ [][NextEvict]_vars

(***************************************************************************)
(* Properties of the undo engine                                           *)
(***************************************************************************)
\* The canvas after k calls of undo().  (The test of DOMAIN w, which is never
\* empty, has each canvas computed before the next call is made.)
RECURSIVE UndoTimes(_, _)
UndoTimes(w, k) == IF k = 0 \/ DOMAIN w = {} THEN w ELSE UndoTimes(undo(w), k - 1)

\* The newest k records of the undo stack are all of the given kinds.
NewestAre(kinds, k) ==
    \A m \in (Len(undo_stack) - k + 1)..Len(undo_stack) :
        undo_stack[m].action_type \in kinds

\* C1.  Structural undo exactness: when the newest k records of the stack are
\* those of k structural edits (click-add, Delete key, right-click delete), k
\* calls of undo() leave the sequence and the selection that were there before
\* the first of these edits.
StructuralUndoExact ==
    /\ Len(h_pre) = Len(undo_stack)
    /\ \A k \in 1..Len(undo_stack) :
           NewestAre({"add", "delete"}, k) =>
               /\ UndoTimes(Cur, k).keypoints = h_pre[Len(undo_stack) - k + 1].keypoints
               /\ UndoTimes(Cur, k).selected_point =
                      h_pre[Len(undo_stack) - k + 1].selected_point

\* C1 happens: a point was added to a non-empty sequence, then a different point
\* deleted, and two undo() calls restore the sequence and the selection.
StructuralUndoWitness ==
    /\ Len(undo_stack) = 2 /\ Len(h_pre) = 2
    /\ undo_stack[1].action_type = "add" /\ undo_stack[2].action_type = "delete"
    /\ h_pre[1].keypoints # << >>
    /\ h_pre[1].selected_point >= 0
    /\ undo_stack[2].data.index # Len(h_pre[1].keypoints)
    /\ keypoints # h_pre[1].keypoints
    /\ selected_point # h_pre[1].selected_point
    /\ UndoTimes(Cur, 2).keypoints = h_pre[1].keypoints
    /\ UndoTimes(Cur, 2).selected_point = h_pre[1].selected_point
    /\ UndoTimes(Cur, 2).undo_stack = << >>

\* The sequence right after the edit of the m-th record: the one before the next
\* recorded edit, or the current one for the newest record.
SequenceAfter(m) ==
    IF m = Len(undo_stack) THEN keypoints ELSE h_pre[m + 1].keypoints

\* The newest n records are those of n consecutive moves of the point i: each is
\* a 'move' record of i, and between them only these moves changed the sequence.
ConsecutiveMoves(n, i) ==
    /\ 0 <= i /\ i < Len(keypoints)
    /\ \A m \in (Len(undo_stack) - n + 1)..Len(undo_stack) :
           /\ undo_stack[m].action_type = "move"
           /\ undo_stack[m].data.index = i
           /\ Len(h_pre[m].keypoints) = Len(keypoints)
           /\ SequenceAfter(m) =
                  [h_pre[m].keypoints EXCEPT ![i + 1] = undo_stack[m].data.new_position]

\* C2.  Move undo exactness: after N consecutive moves of the point i (nudges or
\* completed drags), the j-th undo() puts the point i where it was before the
\* (N-j+1)-th move, and after the N-th the whole sequence is the one before the
\* first move.
MoveUndoExact ==
    /\ Len(h_pre) = Len(undo_stack)
    /\ \A n \in 1..Len(undo_stack) : \A i \in 0..(Len(keypoints) - 1) :
           ConsecutiveMoves(n, i) =>
               /\ \A j \in 1..n :
                      UndoTimes(Cur, j).keypoints[i + 1] =
                          h_pre[Len(undo_stack) - j + 1].keypoints[i + 1]
               /\ UndoTimes(Cur, n).keypoints = h_pre[Len(undo_stack) - n + 1].keypoints

\* C2 happens: a nudge and then a completed drag of the same point, each to a new
\* position, are on the stack, and the undos walk back through the positions.
MoveUndoWitness ==
    /\ Len(undo_stack) = 2 /\ Len(h_pre) = 2 /\ Len(keypoints) = 2
    /\ ConsecutiveMoves(2, 0)
    /\ undo_stack[1].data.new_position[1] = undo_stack[1].data.old_position[1] + 1
    /\ undo_stack[2].data.new_position[1] > undo_stack[2].data.old_position[1] + 10
    /\ UndoTimes(Cur, 1).keypoints[1] = undo_stack[1].data.new_position
    /\ UndoTimes(Cur, 2).keypoints[1] = undo_stack[1].data.old_position
    /\ UndoTimes(Cur, 2).keypoints = h_pre[1].keypoints
    /\ keypoints # h_pre[2].keypoints /\ h_pre[2].keypoints # h_pre[1].keypoints

\* C3.  The undo log reconstructs the prior state: from a state with an empty
\* undo stack, after any complete gestures, undo() until the stack is empty
\* leaves the sequence that was there at the start.
UndoLogReconstructs ==
    ~left_button => UndoTimes(Cur, Len(undo_stack)).keypoints = h_base

\* The edits recorded and not undone whose records the stack has evicted.
Lost == Len(h_pre) - Len(undo_stack)

\* C4.  Eviction bound: the stack never holds more than max_undo_steps records;
\* after more than that many edits without an undo it holds exactly that many;
\* its records are, oldest first, those of the newest edits not undone (so a
\* push at capacity evicted the oldest and kept the order, and undo() applies
\* the newest); and after max_undo_steps + k edits, max_undo_steps undos empty
\* the stack and leave the sequence as it was after the first k edits, which a
\* further undo() does not change.
EvictionBound ==
    /\ Len(undo_stack) <= max_undo_steps
    /\ Len(undo_stack) >= Min(h_run, max_undo_steps)
    /\ Lost >= 0
    /\ \A m \in 1..Len(undo_stack) :
           /\ undo_stack[m].keypoints_before = h_pre[m + Lost].keypoints
           /\ undo_stack[m].selected_point_before = h_pre[m + Lost].selected_point
    /\ undo_stack # << >> => UndoTimes(Cur, 1).keypoints = h_pre[Len(h_pre)].keypoints
    /\ h_run >= max_undo_steps =>
           /\ UndoTimes(Cur, max_undo_steps).undo_stack = << >>
           /\ UndoTimes(Cur, max_undo_steps).keypoints =
                  h_pre[Len(h_pre) - max_undo_steps + 1].keypoints
           /\ UndoTimes(Cur, max_undo_steps + 1).keypoints =
                  UndoTimes(Cur, max_undo_steps).keypoints
           /\ h_run > max_undo_steps =>
                  UndoTimes(Cur, max_undo_steps).keypoints #
                      h_pre[Len(h_pre) - h_run + 1].keypoints

\* C4 happens: max_undo_steps + MaxExtraPushes edits in a row have been recorded,
\* the stack holds max_undo_steps records, and max_undo_steps undos empty it
\* without restoring the sequence from before the run.
EvictionWitness ==
    /\ h_run = max_undo_steps + MaxExtraPushes
    /\ Len(undo_stack) = max_undo_steps
    /\ Lost = MaxExtraPushes
    /\ UndoTimes(Cur, max_undo_steps).undo_stack = << >>
    /\ UndoTimes(Cur, max_undo_steps).keypoints = h_pre[MaxExtraPushes + 1].keypoints
    /\ UndoTimes(Cur, max_undo_steps).keypoints # h_pre[1].keypoints

\* What undo() must leave alone when the stack is empty.
UndoFrame == <<keypoints, selected_point, last_added_point, zoom_factor, pan_offset>>

\* C5.  undo() on an empty stack returns false and leaves the sequence, the
\* selection, the most-recently-added index, the zoom factor and the pan offset
\* as they were, and the stack empty.
UndoOnEmptyReturnsFalse ==
    [][h_event' = "undo_empty" =>
          /\ undo_stack = << >> /\ undo_stack' = << >>
          /\ UndoFrame' = UndoFrame
          /\ undo_result' = "False"]_vars

\* What the code does keep: undo() on an empty stack changes nothing of the
\* state and leaves the stack empty.
UndoOnEmptyKeepsState ==
    [][h_event' = "undo_empty" =>
          /\ undo_stack = << >> /\ undo_stack' = << >>
          /\ UndoFrame' = UndoFrame]_vars

\* undo() has run on an empty stack with points on the canvas, one of them
\* selected, and the view zoomed and panned.
UndoOnEmptyReached ==
    /\ h_event = "undo_empty"
    /\ undo_stack = << >>
    /\ keypoints # << >> /\ selected_point >= 0
    /\ zoom_factor # float_1_0 /\ pan_offset # <<0, 0>>

\* C6.  Every structural mutation is recorded: a handler that changes the length
\* of the sequence or the order of its points (other than undo() itself and
\* the loading of another sequence) pushes exactly one record, which holds the
\* sequence and the selection from before the mutation.
StructuralMutationRecorded ==
    [][(h_event' \notin {"undo", "undo_empty", "set_keypoints", "set_keypoints_over_edits"}
          /\ (Len(keypoints') # Len(keypoints)
                \/ \E i, j \in 1..Len(keypoints) :
                       i # j /\ keypoints[i] # keypoints[j]
                       /\ keypoints' = [keypoints EXCEPT ![i] = keypoints[j],
                                                         ![j] = keypoints[i]]))
        => /\ Len(undo_stack') = Len(undo_stack) + 1
           /\ SubSeq(undo_stack', 1, Len(undo_stack)) = undo_stack
           /\ undo_stack'[Len(undo_stack')].keypoints_before = keypoints
           /\ undo_stack'[Len(undo_stack')].selected_point_before = selected_point]_vars

\* C7.  One undo step per drag: pointer moves push no record; the release that
\* ends a drag of a point pushes exactly one 'move' record, with the point's
\* index and its position at the press, when the point is no longer where it
\* was at the press, and otherwise pushes nothing and changes neither the
\* sequence nor the selection.
DragRecordsOnce ==
    [][/\ h_event' = "pointer_move" => undo_stack' = undo_stack
       /\ (h_event' = "primary_release" /\ dragging) =>
              /\ 0 <= selected_point /\ selected_point < Len(keypoints)
              /\ Len(h_press.keypoints) = Len(keypoints)
              /\ h_press.selected_point = selected_point
              /\ keypoints' = keypoints /\ selected_point' = selected_point
              /\ IF keypoints[selected_point + 1] # h_press.keypoints[selected_point + 1]
                 THEN /\ Len(undo_stack') = Len(undo_stack) + 1
                      /\ SubSeq(undo_stack', 1, Len(undo_stack)) = undo_stack
                      /\ undo_stack'[Len(undo_stack')].action_type = "move"
                      /\ undo_stack'[Len(undo_stack')].data.index = selected_point
                      /\ undo_stack'[Len(undo_stack')].data.old_position =
                             h_press.keypoints[selected_point + 1]
                 ELSE undo_stack' = undo_stack]_vars

\* C7 happens: a drag that moved a point has been released, and its one record
\* is on the stack.
DragRecordsOnceWitness ==
    /\ h_event = "primary_release"
    /\ Len(undo_stack) = 1 /\ Len(h_pre) = 1
    /\ undo_stack[1].action_type = "move"
    /\ undo_stack[1].data.index = selected_point
    /\ undo_stack[1].data.old_position = h_pre[1].keypoints[selected_point + 1]
    /\ undo_stack[1].data.new_position = keypoints[selected_point + 1]
    /\ undo_stack[1].data.new_position # undo_stack[1].data.old_position
    /\ ~dragging

\* What the record rec restores is taken from the state pre: the whole sequence
\* and the selection for a structural record, the point's position for a 'move'.
RestoresFrom(rec, pre) ==
    IF rec.action_type = "move"
    THEN /\ 0 <= rec.data.index /\ rec.data.index < Len(pre.keypoints)
         /\ rec.data.old_position = pre.keypoints[rec.data.index + 1]
    ELSE /\ rec.keypoints_before = pre.keypoints
         /\ rec.selected_point_before = pre.selected_point

\* C8.  Undo never crosses a load: set_keypoints leaves the sequence handed to
\* it, an empty undo stack, no selection and no most-recently-added point; and
\* every record on the stack is that of an edit made since the last load, so
\* that no undo() restores a sequence from before it.
UndoStaysWithinLoad ==
    /\ h_event \in {"set_keypoints", "set_keypoints_over_edits"} =>
           /\ keypoints = h_base
           /\ undo_stack = << >>
           /\ selected_point = -1
           /\ last_added_point = -1
    /\ Len(undo_stack) = Len(h_pre)
    /\ \A m \in 1..Len(undo_stack) : RestoresFrom(undo_stack[m], h_pre[m])
    /\ UndoTimes(Cur, Len(undo_stack) + 1).undo_stack = << >>

\* C8 happens: a sequence has been loaded over recorded edits, and undo() finds
\* nothing to restore.
UndoStaysWithinLoadWitness ==
    /\ h_event = "set_keypoints_over_edits"
    /\ undo_stack = << >> /\ h_pre = << >>
    /\ keypoints = h_base /\ keypoints # << >>
    /\ UndoTimes(Cur, 1).keypoints = h_base

\* The zoom-adjusted hit radius: 20 image pixels divided by the zoom factor,
\* cut to a whole number, and at least 10.
ZoomedRadius == Max(10, int_of_float(float_div(float_of_int(20), zoom_factor)))

\* The points (1-based positions) within the hit radius of the image position p.
Near(p) ==
    {i \in 1..Len(keypoints) : dist2(keypoints[i], p) < ZoomedRadius * ZoomedRadius}

\* A press at the image position p took its first case: the nearest of the points
\* within the radius is selected, and the sequence and the stack are as before.
SelectsNearest(p) ==
    /\ selected_point' + 1 \in Near(p)
    /\ \A i \in Near(p) :
           dist2(keypoints[selected_point' + 1], p) <= dist2(keypoints[i], p)
    /\ keypoints' = keypoints
    /\ undo_stack' = undo_stack

\* A press at the image position p took its second case: p is appended, selected
\* and the most recently added point, and one 'add' record is pushed.
AppendsPoint(p) ==
    /\ keypoints' = Append(keypoints, p)
    /\ selected_point' = Len(keypoints)
    /\ last_added_point' = Len(keypoints)
    /\ Len(undo_stack') = Len(undo_stack) + 1
    /\ SubSeq(undo_stack', 1, Len(undo_stack)) = undo_stack
    /\ undo_stack'[Len(undo_stack')].action_type = "add"
    /\ undo_stack'[Len(undo_stack')].keypoints_before = keypoints

\* A press at the image position p resolves to one of the two cases, and the
\* gesture is then a drag of the point selected.
Resolves(p) ==
    /\ IF Near(p) # {} THEN SelectsNearest(p) ELSE AppendsPoint(p)
    /\ dragging'
    /\ 0 <= selected_point' /\ selected_point' < Len(keypoints')
    /\ drag_start_position' = keypoints'[selected_point' + 1]

\* C9.  Click resolution: a primary press without the pan modifier inside the
\* content rectangle selects the nearest point within the zoom-adjusted hit
\* radius of the image position pressed, changing neither the sequence nor the
\* stack, or, when there is none, appends that position as a new point,
\* selected and most recently added, with one structural record pushed; either
\* way the gesture enters the dragging state for that point.
ClickResolves ==
    [][(/\ h_event' = "primary_press"
        /\ mouse_mode' = "select"
        /\ screen_to_image_coords(Cur, last_mouse_pos') # None)
       => Resolves(screen_to_image_coords(Cur, last_mouse_pos'))]_vars

\* C9 happens: zoomed in, a press has appended a point although another point
\* lies within the radius of zoom 1 (but not within the zoom-adjusted one), and
\* the new point is being dragged.
ClickResolvesWitness ==
    /\ h_event = "primary_press"
    /\ zoom_factor = float_1_2
    /\ Len(keypoints) = 2 /\ selected_point = 1 /\ last_added_point = 1
    /\ dist2(keypoints[1], keypoints[2]) < base_min_distance * base_min_distance
    /\ dist2(keypoints[1], keypoints[2]) >= ZoomedRadius * ZoomedRadius
    /\ undo_stack # << >> /\ undo_stack[Len(undo_stack)].action_type = "add"
    /\ dragging /\ drag_start_position = keypoints[2]

\* The step deleted the point of 0-based index i: the points below i stay, those
\* above move down by one, and the selection is none if it was i, one less if
\* it was above i, and as before if it was below i.
Deleted(i) ==
    /\ Len(keypoints') = Len(keypoints) - 1
    /\ \A j \in 1..Len(keypoints') :
           keypoints'[j] = IF j <= i THEN keypoints[j] ELSE keypoints[j + 1]
    /\ selected_point' = IF selected_point = i THEN -1
                         ELSE IF selected_point > i THEN selected_point - 1
                         ELSE selected_point
    /\ (0 <= selected_point' /\ selected_point < Len(keypoints)) =>
           keypoints'[selected_point' + 1] = keypoints[selected_point + 1]

\* C10.  Delete re-indexing: the Delete key deletes the selected point and a
\* secondary press the most recently added one; exactly that point goes, the
\* higher ones shift down in order, and the selection follows.
DeleteReindexes ==
    [][/\ (h_event' = "key_delete"
             /\ 0 <= selected_point /\ selected_point < Len(keypoints))
          => Deleted(selected_point)
       /\ (h_event' = "secondary_press"
             /\ 0 <= last_added_point /\ last_added_point < Len(keypoints))
          => Deleted(last_added_point)]_vars

\* C10 happens: index 1 of three points has been deleted by a secondary press
\* while index 2 was selected, and the selection is now 1, the same point.
DeleteReindexesWitness ==
    /\ h_event = "secondary_press"
    /\ Len(undo_stack) = 1
    /\ undo_stack[1].action_type = "delete"
    /\ undo_stack[1].data.index = 1
    /\ undo_stack[1].keypoints_before = << <<0, 0>>, <<1, 1>>, <<2, 2>> >>
    /\ undo_stack[1].selected_point_before = 2
    /\ keypoints = << <<0, 0>>, <<2, 2>> >>
    /\ selected_point = 1
    /\ last_added_point = -1

\* Through its own events the canvas keeps the most recently added point, when
\* there is one, at or beyond the end of the sequence.
LastAddedAtEnd == last_added_point = -1 \/ last_added_point >= Len(keypoints) - 1

\* The handler of the step was a press of the secondary button.
SecondaryPressed == h_event' \in {"secondary_press", "secondary_press_held"}

\* The step deleted the most recently added point and recorded the deletion.
QuickDeleted ==
    /\ keypoints' = DelAt(keypoints, last_added_point + 1)
    /\ Len(undo_stack') = Len(undo_stack) + 1
    /\ SubSeq(undo_stack', 1, Len(undo_stack)) = undo_stack
    /\ undo_stack'[Len(undo_stack')].action_type = "delete"
    /\ undo_stack'[Len(undo_stack')].keypoints_before = keypoints
    /\ undo_stack'[Len(undo_stack')].selected_point_before = selected_point
    /\ last_added_point' = -1

\* C11.  Quick-delete-last: a secondary press, whatever the gesture state and the
\* position of the cursor, deletes the most recently added point when there is
\* one and pushes one 'delete' record, after which there is none; when there is
\* none it changes neither the sequence, the selection nor the undo stack.
QuickDeleteLast ==
    [][SecondaryPressed =>
          IF 0 <= last_added_point /\ last_added_point < Len(keypoints)
          THEN QuickDeleted
          ELSE UNCHANGED <<keypoints, selected_point, undo_stack>>]_vars

\* C11 happens: while the primary button was held on a point just added, a
\* secondary press outside the image has deleted that point.
QuickDeleteLastWitness ==
    /\ h_event = "secondary_press_held"
    /\ left_button /\ dragging
    /\ screen_to_image_coords(Cur, last_mouse_pos) = None
    /\ undo_stack # << >>
    /\ undo_stack[Len(undo_stack)].action_type = "delete"
    /\ Len(keypoints) = Len(undo_stack[Len(undo_stack)].keypoints_before) - 1
    /\ last_added_point = -1

\* The displacement an arrow key asks for: one pixel, ten with Shift.
KeyDelta(k) ==
    LET step == IF k[2] THEN 10 ELSE 1
    IN  CASE k[1] = "Left"  -> <<-step, 0>>
          [] k[1] = "Right" -> <<step, 0>>
          [] k[1] = "Up"    -> <<0, -step>>
          [] k[1] = "Down"  -> <<0, step>>

\* The step moved the selected point to q, changed no other point, and pushed
\* one 'move' record that holds the point's position before the step.
NudgedTo(q) ==
    /\ keypoints' = [keypoints EXCEPT ![selected_point + 1] = q]
    /\ selected_point' = selected_point
    /\ Len(undo_stack') = Len(undo_stack) + 1
    /\ SubSeq(undo_stack', 1, Len(undo_stack)) = undo_stack
    /\ undo_stack'[Len(undo_stack')].action_type = "move"
    /\ undo_stack'[Len(undo_stack')].data.index = selected_point
    /\ undo_stack'[Len(undo_stack')].data.old_position = keypoints[selected_point + 1]

\* The point p displaced by d and kept inside the image.
InsideImage(p, d) ==
    <<Max(0, Min(pixmap[1] - 1, p[1] + d[1])), Max(0, Min(pixmap[2] - 1, p[2] + d[2]))>>

\* C12 as amended.  Arrow-key nudge: with a valid selection and the canvas not
\* in pan mode, an arrow key moves the selected point by 1 pixel (10 with
\* Shift) along one axis, clamped to the image, changes no other point, and
\* pushes one 'move' record with the position before the move; with no
\* selection it changes neither the sequence nor the undo stack.
ArrowNudges ==
    [][(h_event' = "key_arrow" /\ mouse_mode = "select") =>
          IF 0 <= selected_point /\ selected_point < Len(keypoints)
          THEN NudgedTo(InsideImage(keypoints[selected_point + 1], KeyDelta(h_input')))
          ELSE UNCHANGED <<keypoints, undo_stack>>]_vars

\* C12 as stated: with a valid selection every arrow key moves the selected
\* point by exactly 1 pixel (10 with Shift) and pushes one 'move' record; with
\* no selection it changes neither the sequence nor the undo stack.
ArrowNudgesExactly ==
    [][h_event' = "key_arrow" =>
          IF 0 <= selected_point /\ selected_point < Len(keypoints)
          THEN NudgedTo(<<keypoints[selected_point + 1][1] + KeyDelta(h_input')[1],
                          keypoints[selected_point + 1][2] + KeyDelta(h_input')[2]>>)
          ELSE UNCHANGED <<keypoints, undo_stack>>]_vars

\* C12 happens: Shift with the Down arrow has moved the selected point from
\* (510, 250) to the bottom edge of the image, five pixels away, and the move
\* is recorded.
ArrowNudgesWitness ==
    /\ h_event = "key_arrow" /\ h_input = <<"Down", TRUE>>
    /\ mouse_mode = "select"
    /\ selected_point = 0
    /\ keypoints = << <<510, 255>> >>
    /\ Len(undo_stack) = 1
    /\ undo_stack[1].action_type = "move"
    /\ undo_stack[1].data.old_position = <<510, 250>>

\* Among the positions (1-based) of the set near, of the sequence kps, the
\* first of those nearest to p.
FirstNearest(kps, p, near) ==
    CHOOSE i \in near :
        /\ \A j \in near : dist2(kps[i], p) <= dist2(kps[j], p)
        /\ \A j \in near : dist2(kps[j], p) = dist2(kps[i], p) => i <= j

\* C13.  Nearest-point tie-break: a press over the image selects, of the points
\* within the hit radius, one at the least distance, and of several at that
\* distance the one of lowest index; Tools.find_closest_point returns the
\* lowest index among the points at the least distance, with that distance.
NearestTieBreak ==
    [][/\ (h_event' = "nearest_press"
             /\ screen_to_image_coords(Cur, h_input') # None
             /\ Near(screen_to_image_coords(Cur, h_input')) # {})
          => /\ selected_point' + 1 =
                   FirstNearest(keypoints, screen_to_image_coords(Cur, h_input'),
                                Near(screen_to_image_coords(Cur, h_input')))
             /\ keypoints' = keypoints
       /\ (h_event' = "find_closest_point" /\ keypoints # << >>)
          => /\ h_input'[2][1] + 1 =
                   FirstNearest(keypoints, h_input'[1], 1..Len(keypoints))
             /\ h_input'[2][2] = dist2(keypoints[h_input'[2][1] + 1], h_input'[1])]_vars

\* C13 happens: three points were at one distance from the press, within the
\* radius, and the press selected the first of them.
NearestTieBreakWitness ==
    /\ h_event = "nearest_press"
    /\ h_input = <<24, 136>> /\ zoom_factor = float_1_0
    /\ keypoints = << <<8, 8>>, <<40, 8>>, <<24, 24>> >>
    /\ selected_point = 0

\* C14.  Point bounds invariant: from a sequence of points inside the image,
\* click-adds (those on the right and bottom edges of the content rectangle
\* included), drags, nudges, deletions and undos leave every point (x, y) with
\* 0 <= x <= image_width - 1 and 0 <= y <= image_height - 1.
PointsInsideImage ==
    pixmap # None =>
        \A i \in 1..Len(keypoints) :
            /\ 0 <= keypoints[i][1] /\ keypoints[i][1] <= pixmap[1] - 1
            /\ 0 <= keypoints[i][2] /\ keypoints[i][2] <= pixmap[2] - 1

\* The coordinate q read back is at most p and less than 1 + full / drawn below
\* it, where the image's extent full is drawn over drawn pixels; with the
\* image not drawn reduced (drawn >= full) it is at most 1 below p.
ReadBackWithin(p, q, full, drawn) ==
    /\ q <= p
    /\ (p - q) * drawn < drawn + full
    /\ drawn >= full => p - q <= 1

\* C15 as amended.  Coordinate round-trip: an image point p inside the image,
\* converted to the screen position at which it is drawn and back with
\* screen_to_image_coords, comes back within 1 pixel of p in each coordinate
\* when the image is drawn at a scale of at least 1, and less than
\* 1 + 1/scale pixels below p when it is drawn reduced.
RoundTripWithinScale ==
    h_event = "paint" =>
        \A i \in 1..Len(keypoints) :
            /\ screen_to_image_coords(Cur, h_input[i]) # None
            /\ ReadBackWithin(keypoints[i][1], screen_to_image_coords(Cur, h_input[i])[1],
                              pixmap[1], get_image_rect(Cur)[3])
            /\ ReadBackWithin(keypoints[i][2], screen_to_image_coords(Cur, h_input[i])[2],
                              pixmap[2], get_image_rect(Cur)[4])

\* C15 as stated: the point comes back within 1 pixel of p in each coordinate,
\* whatever the sizes, the zoom factor and the pan offset.
RoundTripWithinOne ==
    h_event = "paint" =>
        \A i \in 1..Len(keypoints) :
            /\ screen_to_image_coords(Cur, h_input[i]) # None
            /\ Abs(screen_to_image_coords(Cur, h_input[i])[1] - keypoints[i][1]) <= 1
            /\ Abs(screen_to_image_coords(Cur, h_input[i])[2] - keypoints[i][2]) <= 1

\* C15 happens: with the view zoomed in and panned, a point has been drawn and
\* reads back one pixel away from where it is.
RoundTripWitness ==
    /\ h_event = "paint"
    /\ zoom_factor = float_1_2 /\ pan_offset = <<32, 0>>
    /\ Len(keypoints) = 1
    /\ screen_to_image_coords(Cur, h_input[1]) # None
    /\ screen_to_image_coords(Cur, h_input[1]) # keypoints[1]
    /\ Abs(screen_to_image_coords(Cur, h_input[1])[1] - keypoints[1][1]) <= 1
    /\ Abs(screen_to_image_coords(Cur, h_input[1])[2] - keypoints[1][2]) <= 1

\* The canvas after the step, for the view transform.
ViewAfter == [Cur EXCEPT !.zoom_factor = zoom_factor', !.pan_offset = pan_offset']

\* The step was a turn of the wheel that changed the zoom factor.
WheelZoomed == h_event' = "wheel" /\ zoom_factor' # zoom_factor

\* C16.  Zoom-anchor invariant: when a turn of the wheel changes the zoom factor
\* with the pointer inside the content rectangle, the image coordinate under
\* the pointer is the same after the step as before it.
ZoomAnchored ==
    [][(WheelZoomed /\ rect_contains(get_image_rect(Cur), h_input'[1]))
          => screen_to_image_coords(ViewAfter, h_input'[1])
                 = screen_to_image_coords(Cur, h_input'[1])]_vars

\* C17.  A turn of the wheel with the pointer outside the content rectangle (the
\* one the image occupies before the step) leaves the pan offset as it was.
ZoomOutsideKeepsPan ==
    [][(h_event' = "wheel" /\ ~rect_contains(get_image_rect(Cur), h_input'[1]))
          => pan_offset' = pan_offset]_vars

\* C18.  Zoom clamp invariant: whatever turns of the wheel, zoom_in(),
\* zoom_out(), fit_to_window() and reset_view() calls have run,
\* 0.1 <= zoom_factor <= 10.0.
ZoomWithinRange ==
    /\ ~float_less(zoom_factor, float_0_1)
    /\ ~float_less(float_10_0, zoom_factor)

\* C18 happens: the wheel has been turned up, the zoom factor is 10.0 (the turn
\* was cut off at the end of the range) and the view is panned.
ZoomWithinRangeWitness ==
    /\ h_event = "wheel" /\ h_input[2]
    /\ zoom_factor = float_10_0
    /\ pan_offset # <<0, 0>>

\* C19.  The view is reset to identity (zoom factor 1.0, pan offset (0, 0)) by
\* every load of an image and by every fit or reset of the view, whatever the
\* zoom and the pan were.
ViewResetOnLoad ==
    [][h_event' \in {"load_file", "reset_view", "fit_to_window"}
          => zoom_factor' = float_1_0 /\ pan_offset' = <<0, 0>>]_vars

\* The step is a press of the primary button that leaves the sequence, the
\* selection, the most-recently-added index and the undo stack as they were.
PressIsNoOp ==
    UNCHANGED <<keypoints, selected_point, last_added_point, undo_stack>>

\* C20.  Input errors are no-ops: screen_to_image_coords returns None for every
\* screen point outside the rectangle in which the image is drawn
\* (get_image_rect, whose pixels are x .. x + width - 1, y .. y + height - 1),
\* and a press of the primary button at such a point leaves the sequence, the
\* selection, the most-recently-added index and the undo stack unchanged.
PressOutsideIsNoOp ==
    [][(/\ h_event' = "primary_press"
        /\ ~rect_contains(get_image_rect(Cur), last_mouse_pos'))
       => /\ screen_to_image_coords(Cur, last_mouse_pos') = None
          /\ PressIsNoOp]_vars

\* What the code does keep: a press beyond the pixel row and column that follow
\* the drawn image is converted to None and changes nothing.
PressBeyondEdgeIsNoOp ==
    [][(/\ h_event' = "primary_press"
        /\ ~rect_contains(<<get_image_rect(Cur)[1], get_image_rect(Cur)[2],
                            get_image_rect(Cur)[3] + 1, get_image_rect(Cur)[4] + 1>>,
                          last_mouse_pos'))
       => /\ screen_to_image_coords(Cur, last_mouse_pos') = None
          /\ PressIsNoOp]_vars

\* A press beyond the edge has happened with points, a selection and records
\* present.
PressBeyondEdgeWitness ==
    /\ h_event = "primary_press"
    /\ ~rect_contains(<<get_image_rect(Cur)[1], get_image_rect(Cur)[2],
                        get_image_rect(Cur)[3] + 1, get_image_rect(Cur)[4] + 1>>,
                      last_mouse_pos)
    /\ mouse_mode = "select"
    /\ keypoints # << >> /\ selected_point >= 0 /\ undo_stack # << >>

\* The members of a dict other than coord.
extra_fields(members) == SelectSeq(members, LAMBDA member : member[1] # "coord")

\* The value loaded holds the coord array of kps and every extra field saved,
\* with its value.
LoadedAsSaved(loaded, kps, extra) ==
    /\ loaded[1] = "obj"
    /\ dict_has(loaded[2], "coord")
    /\ dict_get(loaded[2], "coord") = <<"arr", coord_value(kps)>>
    /\ \A i \in 1..Len(extra) :
           extra[i][1] # "coord" =>
               /\ dict_has(loaded[2], extra[i][1])
               /\ dict_get(loaded[2], extra[i][1]) = extra[i][2]

\* C21.  Persistence round trip: after a sequence of integer pairs and extra
\* top-level fields not named coord have been saved to the sidecar file,
\* load_with_metadata returns coord equal to the sequence saved, in its order,
\* and every extra field with the value saved, and load_keypoints returns the
\* sequence saved.
PersistenceRoundTrip ==
    /\ (h_event = "load_with_metadata" /\ io.result = "True")
           => LoadedAsSaved(h_input, io.keypoints, io.additional_data)
    /\ (h_event = "load_keypoints" /\ io.result = "True") => h_input = io.keypoints

\* C21 happens: [[10,20],[30,5]] and note "x" have been saved over an earlier
\* document and loaded.
PersistenceRoundTripWitness ==
    /\ h_event = "load_with_metadata" /\ io.result = "True"
    /\ io.keypoints = << <<10, 20>>, <<30, 5>> >>
    /\ io.additional_data = << <<"note", <<"str", "x">> >> >>
    /\ files[json_path \o ".bak"].exists
    /\ h_input = <<"obj", << <<"coord", <<"arr", coord_value(<< <<10, 20>>, <<30, 5>> >>)>> >>,
                              <<"note", <<"str", "x">> >> >> >>

\* The fields other than coord that the sidecar file at path held when the
\* session started.
original_fields(path) ==
    IF SessionFiles[path].exists /\ json_load(SessionFiles[path].text).ok
       /\ json_load(SessionFiles[path].text).v[1] = "obj"
    THEN extra_fields(json_load(SessionFiles[path].text).v[2])
    ELSE << >>

\* The file at path is a document that holds every field of fields, with its
\* value.
HoldsFields(path, fields) ==
    /\ files[path].exists
    /\ json_load(files[path].text).ok
    /\ json_load(files[path].text).v[1] = "obj"
    /\ \A i \in 1..Len(fields) :
           /\ dict_has(json_load(files[path].text).v[2], fields[i][1])
           /\ dict_get(json_load(files[path].text).v[2], fields[i][1]) = fields[i][2]

\* C22.  Unknown metadata survives an editing session: when the application
\* has loaded an image whose sidecar file holds top-level fields other than
\* coord, the keypoints have been edited and the application has saved (from
\* the menu or by auto-save), the sidecar file holds every one of those fields
\* with its original value.
UnknownMetadataSurvives ==
    (/\ h_event \in {"save_current", "next_file", "prev_file"}
     /\ io.pc = "done" /\ io.result = "True")
        => HoldsFields(io.file_path, original_fields(io.file_path))

\* C25.  A persistence failure is surfaced: whenever save_keypoints has not
\* written the sidecar file, save_current has reported an error and has not
\* reported the file as saved.
SaveFailureReported ==
    (/\ h_event = "save_current" /\ session.current_file # "None"
     /\ io.pc = "done" /\ io.result # "True")
        => session.report = "critical"

\* The document that the call in progress writes.
NewText == json_dump(<<"obj", io.data>>)

\* C23.  Save is atomic: from the moment save_keypoints is entered over an
\* existing sidecar file, at every point of the call, the process stopped
\* between any two file-system steps included, the destination holds the
\* complete previous text or the complete new text.
SaveIsAtomic ==
    (io.pc # "idle" /\ h_input.before[json_path].exists)
        => /\ files[json_path].exists
           /\ \/ files[json_path].text = h_input.before[json_path].text
              \/ io.data # << >> /\ files[json_path].text = NewText

\* C24.  A failed save loses nothing: a call of save_keypoints that has ended
\* without returning True has returned False, not raised, and the destination
\* is as it was when the call was entered.
FailedSaveLosesNothing ==
    (io.pc = "done" /\ io.result # "True")
        => /\ io.result = "False"
           /\ files[json_path] = h_input.before[json_path]

\* The steps of the call other than the backup met no failure.
OnlyBackupFailed ==
    /\ \E i \in 1..Len(h_input.met) :
           h_input.met[i][1] = "backup" /\ h_input.met[i][2] # "ok"
    /\ \A i \in 1..Len(h_input.met) :
           h_input.met[i][1] # "backup" => h_input.met[i][2] = "ok"

\* The list handed to the call holds pairs only.
PairsOnly == \A i \in 1..Len(io.keypoints) : Len(io.keypoints[i]) = 2

\* C26.  Backup before overwrite: after a save over an existing sidecar file
\* that returned True and whose backup copy was made, the .bak file holds the
\* text the sidecar had when the save was entered; and a save whose backup
\* copy failed, its other steps succeeding, has gone on, written the sidecar
\* and returned True.
BackupBeforeOverwrite ==
    /\ (/\ io.pc = "done" /\ io.result = "True"
        /\ h_input.before[json_path].exists
        /\ h_input.met[1] = <<"backup", "ok">>)
           => files[json_path \o ".bak"] = h_input.before[json_path]
    /\ (io.pc = "done" /\ OnlyBackupFailed /\ PairsOnly)
           => /\ io.result = "True"
              /\ files[json_path] = File(NewText)

\* C26 happens: a save over an existing document has returned True, the
\* backup holds the earlier document and the sidecar the new one.
BackupBeforeOverwriteWitness ==
    /\ io.pc = "done" /\ io.result = "True"
    /\ h_input.before[json_path].exists
    /\ h_input.met[1] = <<"backup", "ok">>
    /\ files[json_path \o ".bak"] = h_input.before[json_path]
    /\ files[json_path] = File(NewText)
    /\ files[json_path] # files[json_path \o ".bak"]
    /\ h_input.before[json_path \o ".bak"] # files[json_path \o ".bak"]

\* The text holds "coord": followed by a whole array.
HasCoordArray(text) ==
    \E i \in 1..Len(text) :
        /\ coord_open_at(text, i) # 0
        /\ decode_value(SubSeq(text, coord_open_at(text, i), Len(text))).ok

\* The pairs of the first such array of the text.
CoordArrayPairs(text) ==
    LET i == CHOOSE i \in 1..Len(text) :
                 /\ coord_open_at(text, i) # 0
                 /\ decode_value(SubSeq(text, coord_open_at(text, i), Len(text))).ok
                 /\ \A k \in 1..(i - 1) :
                        \/ coord_open_at(text, k) = 0
                        \/ ~decode_value(SubSeq(text, coord_open_at(text, k), Len(text))).ok
    IN valid_coords(decode_value(SubSeq(text, coord_open_at(text, i), Len(text))).v[2])

\* C27.  Load never fails: load_keypoints of a missing file returns the empty
\* sequence; of a file whose text is not valid JSON it returns the pairs of the
\* "coord": [[x, y], ...] array of the text when the text holds one, and the
\* empty sequence when it holds none.
LoadRecovers ==
    h_event = "load_keypoints" =>
        IF ~files[json_path].exists THEN h_input = << >>
        ELSE ~json_load(files[json_path].text).ok =>
                 h_input = IF HasCoordArray(files[json_path].text)
                           THEN CoordArrayPairs(files[json_path].text)
                           ELSE << >>

\* C28.  A decode error is fatal to the current load only: a load_file whose
\* canvas load raised leaves the displayed image, the image array, the DICOM
\* loader, is_dicom, the keypoint sequence, the selection, the undo stack and
\* the current file as they were.
FailedLoadKeepsSession ==
    [][(h_event' = "load_file" /\ h_input'[2]) =>
           /\ UNCHANGED <<pixmap, keypoints, app_keypoints, selected_point, undo_stack>>
           /\ session'.image = session.image
           /\ session'.dicom_loader = session.dicom_loader
           /\ session'.is_dicom = session.is_dicom
           /\ session'.current_file = session.current_file]_vars

\* C29.  Interleaved gestures do not corrupt the undo log: whatever arrived
\* between the primary press and the primary release, a Move record pushed at
\* the release has as index the point the press selected and as old position
\* that point's position when the press had been handled (the sequence having
\* as many points as then).
ReleaseRecordsDraggedPoint ==
    [][(/\ h_event' = "primary_release"
        /\ undo_stack' # undo_stack
        /\ Len(keypoints) = Len(h_press.keypoints)) =>
           LET pushed == undo_stack'[Len(undo_stack')]
           IN  /\ pushed.action_type = "move"
               /\ pushed.data.index = h_press.selected_point
               /\ pushed.data.old_position =
                      h_press.keypoints[h_press.selected_point + 1]]_vars

\* C30.  Pointer motion with the primary button held changes a keypoint's
\* position only while the canvas is in the dragging state, which a primary
\* press that selected or added a point entered; a press outside the content
\* rectangle with a point selected, followed by motion into the rectangle,
\* moves no point.
MotionMovesOnlyWhileDragging ==
    [][(h_event' = "pointer_move" /\ keypoints' # keypoints) => dragging]_vars

\* The newest record of the undo stack, which undo() pops.
Newest == undo_stack[Len(undo_stack)]

\* C31.  Undo of a Move record is a targeted patch: when the newest record is a
\* Move record, undo() writes its old position at its index and selects that
\* index, leaving the length, every other point and last_added_point as they
\* are; with the index out of range it changes neither the sequence nor the
\* selection.
MoveUndoIsPatch ==
    (undo_stack # << >> /\ Newest.action_type = "move") =>
        IF 0 <= Newest.data.index /\ Newest.data.index < Len(keypoints)
        THEN /\ Len(undo(Cur).keypoints) = Len(keypoints)
             /\ undo(Cur).keypoints[Newest.data.index + 1] = Newest.data.old_position
             /\ \A k \in 1..Len(keypoints) :
                    k # Newest.data.index + 1 => undo(Cur).keypoints[k] = keypoints[k]
             /\ undo(Cur).selected_point = Newest.data.index
             /\ undo(Cur).last_added_point = last_added_point
        ELSE /\ undo(Cur).keypoints = keypoints
             /\ undo(Cur).selected_point = selected_point

\* C31 happens: the newest record is a Move record of the point 0 of two, the
\* other point has been moved since the record's snapshot was taken, the
\* selection is elsewhere and a point added last is there; undo() moves the
\* point 0 back and leaves the other point where it is now.
MoveUndoIsPatchWitness ==
    /\ undo_stack # << >> /\ Newest.action_type = "move"
    /\ Len(keypoints) = 2 /\ Newest.data.index = 0
    /\ selected_point # 0
    /\ last_added_point >= 0
    /\ keypoints[1] # Newest.data.old_position
    /\ Len(Newest.keypoints_before) = 2
    /\ keypoints[2] # Newest.keypoints_before[2]
    /\ undo(Cur).keypoints = <<Newest.data.old_position, keypoints[2]>>
    /\ undo(Cur).selected_point = 0

\* C32.  Panning changes only the pan offset: the press with Alt held resolves
\* no point, and after it and after each move of the pan gesture the pan offset
\* is the one before the press plus the pointer's position minus the position
\* of the press, the keypoints, the selection, the undo stack and the zoom
\* factor being those before the press.
PanChangesOnlyPanOffset ==
    Panning =>
        /\ pan_offset = <<h_input.pan_offset[1] + h_input.now[1] - h_input.pos[1],
                          h_input.pan_offset[2] + h_input.now[2] - h_input.pos[2]>>
        /\ keypoints = h_input.keypoints
        /\ selected_point = h_input.selected_point
        /\ undo_stack = h_input.undo_stack
        /\ zoom_factor = h_input.zoom_factor

\* C32 happens: with a point selected and an edit on the stack, the press with
\* Alt was over a point not selected, and the pointer has moved twice, away and
\* on, so that the view is panned.
PanChangesOnlyPanOffsetWitness ==
    /\ h_event = "pan_move"
    /\ left_button
    /\ h_input.pos = <<8, 136>> /\ h_input.now = <<40, 136>>
    /\ pan_offset # h_input.pan_offset
    /\ h_input.keypoints # << >> /\ h_input.selected_point = 1
    /\ h_input.undo_stack # << >>
    /\ h_input.keypoints[1] = <<8, 8>>
    /\ selected_point = 1

\* C33.  Space-held panning: a primary press that arrives right after the Space
\* key went down, the key being still held, resolves no point: it neither
\* selects nor adds one, and the canvas stays in the pan mode.
SpaceHeldPressResolvesNoPoint ==
    [][(h_event = "key_space" /\ mouse_mode = "pan" /\ h_event' = "primary_press") =>
           /\ keypoints' = keypoints
           /\ selected_point' = selected_point
           /\ mouse_mode' = "pan"]_vars

\* C34.  Selection validity: in every state reachable by the canvas's events
\* selected_point is -1 or the index of a point of the sequence.
SelectionValid ==
    selected_point = -1 \/ (0 <= selected_point /\ selected_point < Len(keypoints))

\* C34 happens: undo() has run and the last of the two points is selected;
\* the newest record is the add of that point, so the next undo() shortens the
\* sequence to one point, in which the index now selected is out of range.
SelectionValidWitness ==
    /\ h_event = "undo"
    /\ Len(keypoints) = 2 /\ selected_point = 1
    /\ undo(Cur).keypoints # keypoints
    /\ undo_stack # << >> /\ Newest.action_type = "add"
    /\ Len(Newest.keypoints_before) = 1

\* The position in the undo stack of the newest 'add' record (0: none).
NewestAdd ==
    IF \E m \in 1..Len(undo_stack) : undo_stack[m].action_type = "add"
    THEN CHOOSE m \in 1..Len(undo_stack) :
             /\ undo_stack[m].action_type = "add"
             /\ \A n \in (m + 1)..Len(undo_stack) : undo_stack[n].action_type # "add"
    ELSE 0

\* Where the point that had the index i is once the edits recorded from the
\* position m of the undo stack on have been made (-1: deleted).
RECURSIVE IndexAfter(_, _)
IndexAfter(i, m) ==
    IF m > Len(undo_stack) \/ i = -1 THEN i
    ELSE IF undo_stack[m].action_type # "delete" THEN IndexAfter(i, m + 1)
    ELSE IF undo_stack[m].data.index = i THEN -1
    ELSE IF undo_stack[m].data.index < i THEN IndexAfter(i - 1, m + 1)
    ELSE IndexAfter(i, m + 1)

\* C35.  The quick-delete-last gesture never deletes the wrong point: when
\* last_added_point is an index of the sequence, the most recent click-add is
\* on the undo stack and the point it appended, followed through the
\* deletions recorded since, is at that index.
LastAddedIsTheAddedPoint ==
    (0 <= last_added_point /\ last_added_point < Len(keypoints)) =>
        /\ NewestAdd # 0
        /\ IndexAfter(Len(undo_stack[NewestAdd].keypoints_before), NewestAdd + 1)
               = last_added_point

\* C35 happens: a point was added by a click, another point deleted with the
\* Delete key and the deletion undone; last_added_point is again in range and
\* the selection is on the other point.
LastAddedIsTheAddedPointWitness ==
    /\ h_event = "undo"
    /\ Len(keypoints) = 2 /\ last_added_point = 1
    /\ selected_point = 0
    /\ Len(undo_stack) = 1 /\ Newest.action_type = "add"

\* C36.  What is saved is what is shown: once an event and the shell's
\* handlers of its signals have run, the shell's keypoint list equals the
\* canvas's keypoint sequence.
SavedIsShown == app_keypoints = keypoints

\* C37.  In the assembled application a click on empty image space adds exactly
\* one point: when the press has been handled, with the shell's handler of
\* point_added, the sequence is one element longer, its last element is the
\* image position clicked, that point is selected and the record of the add is
\* on the stack.
ClickAddsOnePoint ==
    [][(/\ h_event' = "primary_press"
        /\ mouse_mode' = "select"
        /\ screen_to_image_coords(Cur, last_mouse_pos') # None
        /\ closest_point(Cur, screen_to_image_coords(Cur, last_mouse_pos')) < 0) =>
           /\ keypoints' = Append(keypoints, screen_to_image_coords(Cur, last_mouse_pos'))
           /\ selected_point' = Len(keypoints)
           /\ undo_stack' # << >>
           /\ undo_stack'[Len(undo_stack')].action_type = "add"]_vars

\* C38.  Auto-save persists the current sequence on navigation: with auto-save
\* enabled, after a move to the previous or the next file in which no save
\* failed, the sidecar file of the image left reads as the shell's keypoint
\* sequence as it was at that moment, the empty sequence included (an image
\* without a sidecar file reads as the empty sequence).
AutoSaveOnNavigation ==
    [][(/\ h_event' \in {"next_file", "prev_file"}
        /\ session.auto_save
        /\ session.current_file # "None"
        /\ io'.result \notin {"False", "raised"}) =>
           load_keypoints(files', sidecar_of(session.current_file)) = app_keypoints]_vars

\* C39.  File navigation index consistency: once a folder has been loaded,
\* after any prev_file and next_file calls, those whose load fails included,
\* current_index is an index of the folder's list and current_file is the file
\* at that index.
IndexDesignatesCurrentFile ==
    session.current_index >= 0 =>
        /\ session.current_index < Len(FolderFiles)
        /\ session.current_file = FolderFiles[session.current_index + 1].name

====
